---- MODULE Spec2Model ----
(***************************************************************************)
(* Entitlement resolution, usage metering and the chat gates of the S-AI   *)
(* backend (backend/models/supabase_state.py, backend/services/            *)
(* supabase_database.py, backend/web/chat.py, backend/main.py).            *)
(*                                                                         *)
(* One user is modelled.  The persistent store is three tables: the users  *)
(* row, the subscriptions rows (in insertion order) and the user_usage row *)
(* of the current month (rows of past months are never read again, so a    *)
(* new month starts without a row).  Time is a counter of ticks; the       *)
(* server's local zone is UTC, so datetime.now() and                       *)
(* datetime.now(timezone.utc) denote the same instant, the first naive and *)
(* the second aware.  Requests are handled one at a time: a handler runs   *)
(* to its end, then its response is sent.                                  *)
(*                                                                         *)
(* supabase_state.py awaits the SupabaseService methods.  An awaited store *)
(* call is modelled by its result, or by an exception raised at that call  *)
(* (the failure input of the actions), which covers both a failing store   *)
(* and a failing await.                                                    *)
(***************************************************************************)
EXTENDS Integers, Sequences, FiniteSets, TLC

VARIABLES
    now,            \* the clock, in ticks
    tzRep,          \* how the store returns timestamps: "naive" or "utc"
    users,          \* the users row of the user
    subscriptions,  \* the subscriptions rows of the user, in insertion order
    user_usage,     \* the user_usage row of the user for the month of now
    mem,            \* models/state.py: the in-memory user_usage entry
    redis,          \* models/state_fallback.py: the counter keys of the user
    cache,          \* services/redis_cache.py, github_cache.py: the cache
    sancache,       \* utils/validators.py: the sanitized:<md5> keys
    race,           \* increment_usage calls in progress, one per worker
    oauth,          \* web/githubOauth.py: oauth_states and its clock
    resets,         \* history: zeroings of the daily counters on each day
    last            \* what the last operation observed and returned

\* the state outside the subscription and usage stores
others == <<cache, sancache, race, oauth>>

vars == <<now, tzRep, users, subscriptions, user_usage, mem, redis, resets,
          last, others>>

----------------------------------------------------------------------------
(* Bounds of the model *)

MaxDays == 1        \* days that pass one by one after the start of a month
MaxPeriods == 1     \* number of 30-day jumps of the clock
MaxSubs == 2        \* number of subscriptions rows
MaxCount == 1       \* a chat request is made while the month's count is below this
PrefixLen == 10     \* tokens that stand for the first 1000 characters of a text
MaxCached == 1      \* sanitized texts in the cache at a time
MaxMessages == 1    \* messages in the cached list of a session
MaxIncrements == 2  \* increments of the usage counters on their own
MaxTokens == 2      \* state tokens issued by github_oauth_authorize
MaxMinutes == 15    \* minutes that pass in the OAuth flow
MinutesPerStep == 5 \* minutes between two moments at which requests arrive

(* Calendar and program constants *)

TicksPerDay == 2
SubscriptionDays == 30
DaysPerMonth == 30

Period == SubscriptionDays * TicksPerDay
MaxTime == MaxPeriods * Period + MaxDays * TicksPerDay

DateOf(t) == t \div TicksPerDay
MonthOf(t) == DateOf(t) \div DaysPerMonth

Tiers == {"free", "starter", "pro", "pro_plus"}
PaidTiers == {"starter", "pro", "pro_plus"}
TzReps == {"naive", "utc"}

----------------------------------------------------------------------------
(* Timestamps: the stored ISO strings and the datetime values parsed from  *)
(* them.  A stored string is null, malformed, or a wall-clock reading that *)
(* is naive or carries the +00:00 offset.                                  *)

NullTs == [kind |-> "null", wall |-> 0, tz |-> "naive"]
BadTs == [kind |-> "bad", wall |-> 0, tz |-> "naive"]
Ts(w, z) == [kind |-> "ts", wall |-> w, tz |-> z]

\* datetime.isoformat() of a naive datetime.now(), as the store returns it
StoreTs(t, rep) == Ts(t, rep)

\* `if end_date_str:` -- None is falsy
Truthy(s) == s.kind # "null"

\* datetime.fromisoformat raises ValueError on a malformed string
ParseFails(s) == s.kind = "bad"

\* datetime.fromisoformat: the wall clock and the tzinfo of the string
fromisoformat(s) == Ts(s.wall, s.tz)

\* `if d.tzinfo is None: d = d.replace(tzinfo=timezone.utc)`
MakeAware(d) == IF d.tz = "naive" THEN Ts(d.wall, "utc") ELSE d

\* the instant an aware datetime denotes (offset +00:00)
Instant(d) == d.wall

\* datetime.now(timezone.utc)
NowAware(t) == Ts(t, "utc")

\* d1 > d2 on datetimes; Python raises TypeError when only one is aware
CompareRaises(d1, d2) == d1.tz # d2.tz

\* variant of After that also accepts the instant itself (d1 >= d2)
AfterOrAt(d1, d2) == Instant(d1) >= Instant(d2)

After(d1, d2) == Instant(d1) > Instant(d2)

----------------------------------------------------------------------------
(* Rows *)

NoUser == [exists |-> FALSE, subscription_tier |-> "free", is_paid |-> FALSE,
           subscription_end_date |-> NullTs]

\* auth/dependencies.py ensure_user_in_database: the row of a new user
NewUser == [exists |-> TRUE, subscription_tier |-> "free", is_paid |-> FALSE,
            subscription_end_date |-> NullTs]

NoSub == [status |-> "none", tier |-> "free", current_end |-> NullTs]

NoUsage == [exists |-> FALSE, daily_message_count |-> 0,
            total_message_count |-> 0, last_reset_date |-> NullTs]

----------------------------------------------------------------------------
(* services/supabase_database.py: the store client *)

\* initialize_usage_tracking: the zeroed row of the current month
InitialUsage(t, rep) ==
    [exists |-> TRUE, daily_message_count |-> 0, total_message_count |-> 0,
     last_reset_date |-> StoreTs(t, rep)]

\* variant of ResetDue that compares the dates with <=
ResetDueSameDay(row, t) ==
    IF row.exists THEN DateOf(fromisoformat(row.last_reset_date).wall) <= DateOf(t)
    ELSE FALSE

\* `last_reset.date() < now.date()`
ResetDue(row, t) ==
    IF row.exists THEN DateOf(fromisoformat(row.last_reset_date).wall) < DateOf(t)
    ELSE FALSE      \* usage = {}: last_reset defaults to now

\* SupabaseService.get_user_usage on the row of the current month: the row
\* is created when missing and its daily counters are zeroed when a day has
\* passed.  fail names the store call that raises: the select, the upsert
\* of initialize_usage_tracking (swallowed there) or the reset update.
DbGetUserUsage(row, t, rep, fail) ==
    LET created == IF row.exists \/ fail = "init" THEN row
                   ELSE InitialUsage(t, rep)
        zeroed == [created EXCEPT !.daily_message_count = 0,
                                  !.last_reset_date = StoreTs(t, rep)]
    IN  IF fail = "select"
        THEN [raised |-> TRUE, usage |-> NoUsage, row |-> row, reset |-> FALSE]
        ELSE IF ResetDue(created, t)
        THEN IF fail = "reset"
             THEN [raised |-> TRUE, usage |-> NoUsage, row |-> created,
                   reset |-> FALSE]
             ELSE [raised |-> FALSE, usage |-> zeroed, row |-> zeroed,
                   reset |-> TRUE]
        ELSE [raised |-> FALSE, usage |-> created, row |-> created,
              reset |-> FALSE]

\* variant of DbIncrementUsage that writes the daily counter alone
DbIncrementUsageDailyOnly(row, t, rep, fail) ==
    LET r == DbGetUserUsage(row, t, rep, fail)
    IN  IF r.raised \/ ~r.usage.exists \/ fail = "write"
        THEN r.row
        ELSE [r.row EXCEPT !.daily_message_count = r.usage.daily_message_count + 1]

\* SupabaseService.increment_usage: read through get_user_usage, then write
\* both message counters raised by one (the token counters, raised by the
\* same update, are not modelled).  Every exception is swallowed; a row
\* that could not be created has no counters (KeyError, swallowed).
DbIncrementUsage(row, t, rep, fail) ==
    LET r == DbGetUserUsage(row, t, rep, fail)
    IN  IF r.raised \/ ~r.usage.exists \/ fail = "write"
        THEN r.row
        ELSE [r.row EXCEPT !.daily_message_count = r.usage.daily_message_count + 1,
                           !.total_message_count = r.usage.total_message_count + 1]

\* the rows get_active_subscription selects: status = 'active'
ActiveRows(S) == {i \in 1..Len(S) : S[i].status = "active"}

\* the most recently inserted active row
NewestActive(S) == CHOOSE i \in ActiveRows(S) : \A j \in ActiveRows(S) : j <= i

\* SupabaseService.get_active_subscription returns response.data[0] of a
\* select without ORDER BY: any of the active rows may come first.
PickChoices(S) == IF ActiveRows(S) = {} THEN {0} ELSE ActiveRows(S)

get_active_subscription(S, pick) == IF pick = 0 THEN NoSub ELSE S[pick]

\* SupabaseService.update_user with the demotion of get_user_usage
DemotedUser(U) ==
    [U EXCEPT !.subscription_tier = "free", !.is_paid = FALSE,
              !.subscription_end_date = NullTs]

----------------------------------------------------------------------------
(* models/supabase_state.py: the entitlement resolver *)

FailPoints == {"none", "user", "select", "init", "reset", "sub", "update"}

\* variant of DefaultSnapshot that reports the time of the call as end date
DefaultSnapshotDated(t) ==
    [subscription_tier |-> "free", is_paid |-> FALSE, daily_message_count |-> 0,
     prompt_count |-> 0, subscription_end_date |-> Ts(t, "utc"),
     last_reset_date |-> Ts(t, "naive")]

\* the UserUsage returned when the user is absent and from the except block
DefaultSnapshot(t) ==
    [subscription_tier |-> "free", is_paid |-> FALSE, daily_message_count |-> 0,
     prompt_count |-> 0, subscription_end_date |-> NullTs,
     last_reset_date |-> Ts(t, "naive")]

\* lines 52-87: the check of the subscriptions-table row.  `bound` records
\* whether the function-local `from datetime import timezone` of line 62
\* has run; `raised` is an exception that reaches the outer except block.
CheckSubscription(user, subscription, t, fail) ==
    LET untouched == [is_paid |-> FALSE, tier |-> user.subscription_tier,
                      end_date |-> NullTs, bound |-> FALSE, issued |-> FALSE,
                      wrote |-> FALSE, raised |-> FALSE]
        end_date_str == subscription.current_end
        end_date == MakeAware(fromisoformat(end_date_str))
    IN  IF ~(subscription.status = "active") THEN untouched
        ELSE IF ~Truthy(end_date_str) THEN untouched
        ELSE IF ParseFails(end_date_str) THEN untouched
        ELSE IF CompareRaises(end_date, NowAware(t))
        THEN [untouched EXCEPT !.end_date = end_date, !.bound = TRUE,
                               !.raised = TRUE]
        ELSE IF After(end_date, NowAware(t))
        THEN [untouched EXCEPT !.is_paid = TRUE, !.end_date = end_date,
                               !.bound = TRUE]
        ELSE [untouched EXCEPT !.tier = "free", !.end_date = end_date,
                               !.bound = TRUE, !.issued = TRUE,
                               !.wrote = (fail # "update"),
                               !.raised = (fail = "update")]

\* lines 89-106: the backup check of the users row, on the `user` dict that
\* was read before any demotion.  Reading timezone.utc raises
\* UnboundLocalError when line 62 has not run.
CheckUserRow(user, c, t) ==
    LET user_end_date_str == user.subscription_end_date
        user_end_date == MakeAware(fromisoformat(user_end_date_str))
    IN  IF c.is_paid \/ ~user.is_paid THEN c
        ELSE IF ~Truthy(user_end_date_str) THEN c
        ELSE IF ParseFails(user_end_date_str) THEN c
        ELSE IF ~c.bound THEN [c EXCEPT !.raised = TRUE]
        ELSE IF CompareRaises(user_end_date, NowAware(t))
        THEN [c EXCEPT !.raised = TRUE]
        ELSE IF After(user_end_date, NowAware(t))
        THEN [c EXCEPT !.is_paid = TRUE, !.tier = user.subscription_tier,
                       !.end_date = user_end_date]
        ELSE c

\* get_user_usage(user_id): the snapshot returned, the tables after the
\* call, whether update_user was issued, and how the call ended: "ok",
\* "absent" (no user row), "error" (a store call raised) or "unbound" (the
\* checks themselves raised); the last three return the default snapshot.
get_user_usage(U, UT, S, t, rep, fail, pick) ==
    LET failed(T, UU, iss) ==
            [snap |-> DefaultSnapshot(t), users |-> UU, usage |-> T,
             issued |-> iss, reset |-> FALSE, outcome |-> "error"]
        ur == DbGetUserUsage(UT, t, rep, fail)
        subscription == get_active_subscription(S, pick)
        c1 == CheckSubscription(U, subscription, t, fail)
        c2 == CheckUserRow(U, c1, t)
        U1 == IF c1.wrote THEN DemotedUser(U) ELSE U
    IN  IF fail = "user" THEN failed(UT, U, FALSE)
        ELSE IF ~U.exists
        THEN [failed(UT, U, FALSE) EXCEPT !.outcome = "absent"]
        ELSE IF ur.raised THEN failed(ur.row, U, FALSE)
        ELSE IF fail = "sub" THEN failed(ur.row, U, FALSE)
        ELSE IF c1.raised /\ c1.issued THEN failed(ur.row, U1, TRUE)
        ELSE IF c1.raised \/ c2.raised
        THEN [failed(ur.row, U1, c1.issued) EXCEPT !.outcome = "unbound"]
        ELSE [snap |-> [subscription_tier |-> c2.tier,
                        is_paid |-> c2.is_paid,
                        daily_message_count |-> ur.usage.daily_message_count,
                        prompt_count |-> ur.usage.total_message_count,
                        subscription_end_date |-> c2.end_date,
                        last_reset_date |->
                            IF ur.usage.exists
                            THEN fromisoformat(ur.usage.last_reset_date)
                            ELSE Ts(t, "naive")],
              users |-> U1, usage |-> ur.row, issued |-> c1.issued,
              reset |-> ur.reset, outcome |-> "ok"]

\* update_user_subscription(user_id, tier, is_paid, end_date): writes the
\* tier and the end date, not is_paid; every exception is swallowed.
update_user_subscription(U, tier, end_date, failed) ==
    IF failed \/ ~U.exists THEN U
    ELSE [U EXCEPT !.subscription_tier = tier,
                   !.subscription_end_date = end_date]

\* increment_message_count(user_id): best effort
increment_message_count(U, UT, t, rep, fail) ==
    IF fail = "inc_user" \/ ~U.exists THEN UT
    ELSE DbIncrementUsage(UT, t, rep,
            CASE fail = "inc_select" -> "select"
              [] fail = "inc_init" -> "init"
              [] fail = "inc_reset" -> "reset"
              [] fail = "inc_write" -> "write"
              [] OTHER -> "none")

----------------------------------------------------------------------------
(* models/ai_models.py: the allow-lists and the model gate *)

FREE_MODELS ==
    {"openai/gpt-oss-20b:free", "tngtech/deepseek-r1t2-chimera:free",
     "cognitivecomputations/dolphin-mistral-24b-venice-edition:free",
     "meta-llama/llama-3.2-3b-instruct:free", "meta-llama/llama-4-maverick:free",
     "qwen/qwen3-30b-a3b:free", "qwen/qwen3-235b-a22b:free"}

STARTER_MODELS == FREE_MODELS \cup {"meta-llama/llama-3.3-70b-instruct:free"}

\* variant of PRO_MODELS that does not extend the starter list
PRO_MODELS_ONLY == {"x-ai/grok-4-fast", "google/gemini-2.5-flash-image"}

PRO_MODELS == STARTER_MODELS \cup {"x-ai/grok-4-fast", "google/gemini-2.5-flash-image"}

PRO_PLUS_MODELS == PRO_MODELS \cup {"anthropic/claude-3.5-sonnet", "openai/gpt-4-turbo"}

\* tier_models.get(tier, FREE_MODELS)
TierModels(tier) ==
    CASE tier = "free" -> FREE_MODELS
      [] tier = "starter" -> STARTER_MODELS
      [] tier = "pro" -> PRO_MODELS
      [] tier = "pro_plus" -> PRO_PLUS_MODELS
      [] OTHER -> FREE_MODELS

\* variant of validate_model_access that lets an unlisted model through
validate_model_access_open(model_id, tier) ==
    model_id \in TierModels(tier) \/ model_id \notin PRO_PLUS_MODELS

validate_model_access(model_id, tier) == model_id \in TierModels(tier)

\* TIER_FEATURES.get(tier, {}).get("image_generation", False)
ImageGeneration(tier) == tier \in {"pro", "pro_plus"}

\* the models a modelled chat request asks for: a free model, the image
\* model of the pro list, and one that no list contains
ChatModels ==
    {"openai/gpt-oss-20b:free", "google/gemini-2.5-flash-image",
     "unlisted/model"}

\* `"image" in model.lower() or "gemini" in model.lower()`, on ChatModels
IsImageModel(model_id) == model_id = "google/gemini-2.5-flash-image"

----------------------------------------------------------------------------
(* web/chat.py: the chat handler *)

FREE_TIER_DAILY_LIMIT == 50
STARTER_MONTHLY_LIMIT == 500
PRO_MONTHLY_LIMIT == 2000

\* lines 74-91: lower-casing and normalisation of the tier
NormalizeTier(tier) ==
    CASE tier = "pro_plus" -> "pro_plus"
      [] tier = "pro" -> "pro"
      [] tier = "starter" -> "starter"
      [] tier = "free" -> "free"
      [] OTHER -> "free"

\* variant of QuotaDenied that denies only above the limits
QuotaDeniedAbove(tier, snap) ==
    CASE tier = "free" -> snap.daily_message_count > FREE_TIER_DAILY_LIMIT
      [] tier = "starter" -> snap.prompt_count > STARTER_MONTHLY_LIMIT
      [] tier = "pro" -> snap.prompt_count > PRO_MONTHLY_LIMIT
      [] OTHER -> FALSE

\* lines 143-188: the quota gate
QuotaDenied(tier, snap) ==
    CASE tier = "free" -> snap.daily_message_count >= FREE_TIER_DAILY_LIMIT
      [] tier = "starter" -> snap.prompt_count >= STARTER_MONTHLY_LIMIT
      [] tier = "pro" -> snap.prompt_count >= PRO_MONTHLY_LIMIT
      [] OTHER -> FALSE

\* lines 59-71: the handler's own expiry check on the snapshot
HandlerExpired(snap, t) ==
    /\ Truthy(snap.subscription_end_date)
    /\ After(NowAware(t), MakeAware(snap.subscription_end_date))

\* lines 105-119: the tier named in the upgrade message of a model denial
RequiredTier(model_id) ==
    IF model_id \in PRO_PLUS_MODELS /\ model_id \notin PRO_MODELS THEN "pro_plus"
    ELSE IF model_id \in PRO_MODELS /\ model_id \notin STARTER_MODELS THEN "pro"
    ELSE IF model_id \in STARTER_MODELS /\ model_id \notin FREE_MODELS
    THEN "starter"
    ELSE "free"

\* lines 101-188: the gate that denies the request, if any, in code order:
\* model access, image-generation feature, quota
DeniedBy(model_id, tier, snap) ==
    IF ~validate_model_access(model_id, tier) THEN "model"
    ELSE IF IsImageModel(model_id) /\ ~ImageGeneration(tier) THEN "image"
    ELSE IF QuotaDenied(tier, snap) THEN "quota"
    ELSE "none"

\* the HTTPException a gate raises: 403 for the model and the image gate,
\* 402 for the quota gate
DenialStatus(denied) == IF denied = "quota" THEN 402 ELSE 403

\* variant of Forwarded that posts to the upstream API whatever the gates said
ForwardedAlways(denied) == TRUE

\* lines 295-301: the post to the upstream API is reached only when no gate
\* raised
Forwarded(denied) == denied = "none"

\* variant of IncrementRaises without the try/except of the increment
IncrementRaisesUncaught(fail) ==
    fail \in {"inc_user", "inc_select", "inc_init", "inc_reset", "inc_write"}

\* supabase_state.py 156-166: increment_message_count catches every
\* Exception of its user lookup and of increment_usage
IncrementRaises(fail) == FALSE

\* variant of IncrementReached with the increment placed right after the
\* post, before the response is looked at
IncrementReachedOnCall(called, upstream) == called

\* lines 303-340 and 443-445: increment_message_count is reached once the
\* upstream API has answered 200 with a non-empty choices list
IncrementReached(called, upstream) == called /\ upstream = "ok"

\* variant of ForwardedStatus without the except clause for the timeout
ForwardedStatusGeneric(upstream, fail) ==
    CASE upstream = "timeout" -> 500
      [] upstream = "status" -> 429
      [] upstream = "empty" -> 500
      [] IncrementRaises(fail) -> 500
      [] OTHER -> 200

\* lines 303-340 and 443-470: the status of a forwarded request; the
\* upstream status of a non-200 response is 429 here
ForwardedStatus(upstream, fail) ==
    CASE upstream = "timeout" -> 504
      [] upstream = "status" -> 429
      [] upstream = "empty" -> 500
      [] IncrementRaises(fail) -> 500
      [] OTHER -> 200

ChatFailPoints ==
    FailPoints \cup {"expiry", "inc_user", "inc_select", "inc_init",
                     "inc_reset", "inc_write"}

UpstreamOutcomes == {"ok", "timeout", "status", "empty"}

----------------------------------------------------------------------------
(* services/redis_cache.py and services/github_cache.py: the cache.  Both   *)
(* clients are built from REDIS_URL.  cache.enabled is RedisCache.enabled,  *)
(* cache.client says whether redis_config.redis_client is a client or None, *)
(* cache.kv maps a key to its value; a value is a JSON list.                *)

\* user:<id>:<suffix>, the keys invalidate_user_tier_cache deletes, in order
TierCacheKeys == <<"tier", "limits", "usage", "daily_messages", "subscription">>

TierKeySet == {TierCacheKeys[i] : i \in 1..Len(TierCacheKeys)}

CacheKeys ==
    {"session", "messages", "user_sessions", "gh_connection", "gh_repos"}
        \cup TierKeySet

Nil == [set |-> FALSE, data |-> << >>]

Val(data) == [set |-> TRUE, data |-> data]

NoCache == [enabled |-> TRUE, client |-> TRUE, kv |-> [k \in CacheKeys |-> Nil]]

\* what a call to the Redis server may do: answer, raise, or not answer
CacheFaults == {"none", "throw", "hang"}

\* what an operation gives back: ret is "None", "False", "True", "data",
\* "stats" (a dict), or "blocked" when it does not return
Ret(ret, data, kv) == [ret |-> ret, data |-> data, kv |-> kv]

\* RedisCache.__init__ sets socket_timeout=5: a call that gets no answer
\* raises after five seconds
CacheRaises(fault) == fault \in {"throw", "hang"}

\* the shape of cache_session, cache_messages, cache_user_sessions
CacheSetex(C, key, data, fault) ==
    IF ~C.enabled THEN Ret("False", << >>, C.kv)
    ELSE IF CacheRaises(fault) THEN Ret("False", << >>, C.kv)
    ELSE Ret("True", << >>, [C.kv EXCEPT ![key] = Val(data)])

\* the shape of get_session, get_messages, get_user_sessions
CacheGet(C, key, fault) ==
    IF ~C.enabled THEN Ret("None", << >>, C.kv)
    ELSE IF CacheRaises(fault) THEN Ret("None", << >>, C.kv)
    ELSE IF C.kv[key].set THEN Ret("data", C.kv[key].data, C.kv)
    ELSE Ret("None", << >>, C.kv)

\* the keys of the sequence before position at are deleted
DeleteBefore(kv, keys, at) ==
    [k \in CacheKeys |->
        IF \E i \in 1..Len(keys) : i < at /\ keys[i] = k THEN Nil ELSE kv[k]]

\* the shape of the invalidate operations: the keys are deleted one call
\* after the other, and the call at position `at` is the one that fails
CacheDelete(C, keys, fault, at) ==
    IF ~C.enabled THEN Ret("False", << >>, C.kv)
    ELSE IF CacheRaises(fault) /\ at <= Len(keys)
    THEN Ret("False", << >>, DeleteBefore(C.kv, keys, at))
    ELSE Ret("True", << >>, DeleteBefore(C.kv, keys, Len(keys) + 1))

cache_session(C, data, fault) == CacheSetex(C, "session", data, fault)

get_session(C, fault) == CacheGet(C, "session", fault)

cache_messages(C, messages, fault) == CacheSetex(C, "messages", messages, fault)

get_messages(C, fault) == CacheGet(C, "messages", fault)

\* append_message: get_messages, then cache_messages with the message
\* appended (or alone, when get_messages gave None); both swallow their
\* failures and the result of cache_messages is not looked at
append_message(C, message, fault, at) ==
    IF ~C.enabled THEN Ret("False", << >>, C.kv)
    ELSE LET g == get_messages(C, IF at = 1 THEN fault ELSE "none")
             messages == IF g.ret = "None" THEN <<message>>
                         ELSE Append(g.data, message)
             c == cache_messages(C, messages, IF at = 2 THEN fault ELSE "none")
         IN  Ret("True", << >>, c.kv)

cache_user_sessions(C, data, fault) == CacheSetex(C, "user_sessions", data, fault)

get_user_sessions(C, fault) == CacheGet(C, "user_sessions", fault)

invalidate_session(C, fault, at) ==
    CacheDelete(C, <<"session", "messages">>, fault, at)

invalidate_user_tier_cache(C, fault, at) ==
    CacheDelete(C, TierCacheKeys, fault, at)

invalidate_user_sessions(C, fault) ==
    CacheDelete(C, <<"user_sessions">>, fault, 1)

\* invalidate_all_user_data: one KEYS call for *<user_id>*, then one DELETE
\* of every key found (the session and messages keys carry the session id)
invalidate_all_user_data(C, fault) ==
    IF ~C.enabled \/ CacheRaises(fault) THEN Ret("False", << >>, C.kv)
    ELSE Ret("True", << >>,
             [k \in CacheKeys |->
                 IF k \in {"session", "messages"} THEN C.kv[k] ELSE Nil])

\* clear_all: FLUSHDB
clear_all(C, fault) ==
    IF ~C.enabled \/ CacheRaises(fault) THEN Ret("False", << >>, C.kv)
    ELSE Ret("True", << >>, [k \in CacheKeys |-> Nil])

\* get_stats returns a dict on every path
get_stats(C, fault) == Ret("stats", << >>, C.kv)

\* redis_config.get_redis_client builds the client with
\* redis.from_url(redis_url, decode_responses=True): no socket timeout, so
\* a call that gets no answer does not return
ClientBlocks(fault) == fault = "hang"

\* the shape of GitHubCacheService.get_connection_status, get_repos
GitHubGet(C, key, fault) ==
    IF ~C.client THEN Ret("None", << >>, C.kv)
    ELSE IF ClientBlocks(fault) THEN Ret("blocked", << >>, C.kv)
    ELSE IF fault = "throw" THEN Ret("None", << >>, C.kv)
    ELSE IF C.kv[key].set THEN Ret("data", C.kv[key].data, C.kv)
    ELSE Ret("None", << >>, C.kv)

\* the shape of set_connection_status, set_repos
GitHubSetex(C, key, data, fault) ==
    IF ~C.client THEN Ret("False", << >>, C.kv)
    ELSE IF ClientBlocks(fault) THEN Ret("blocked", << >>, C.kv)
    ELSE IF fault = "throw" THEN Ret("False", << >>, C.kv)
    ELSE Ret("True", << >>, [C.kv EXCEPT ![key] = Val(data)])

\* the shape of invalidate_connection_status, invalidate_repos
GitHubDelete(C, key, fault) ==
    IF ~C.client THEN Ret("False", << >>, C.kv)
    ELSE IF ClientBlocks(fault) THEN Ret("blocked", << >>, C.kv)
    ELSE IF fault = "throw" THEN Ret("False", << >>, C.kv)
    ELSE Ret("True", << >>, [C.kv EXCEPT ![key] = Nil])

get_connection_status(C, fault) == GitHubGet(C, "gh_connection", fault)

set_connection_status(C, data, fault) ==
    GitHubSetex(C, "gh_connection", data, fault)

invalidate_connection_status(C, fault) == GitHubDelete(C, "gh_connection", fault)

get_repos(C, fault) == GitHubGet(C, "gh_repos", fault)

set_repos(C, data, fault) == GitHubSetex(C, "gh_repos", data, fault)

invalidate_repos(C, fault) == GitHubDelete(C, "gh_repos", fault)

----------------------------------------------------------------------------
(* utils/validators.py: InputValidator.sanitize_string.  A text is a        *)
(* sequence of tokens: words, SQL keywords, markup, and "\n" between lines. *)
(* A regular expression of the source is the set of token sequences it      *)
(* matches; matching ignores case, so keywords are written in lower case.   *)


\* text[:n]
Take(text, n) == IF Len(text) <= n THEN text ELSE SubSeq(text, 1, n)

\* `.` does not match a newline: positions i..j lie on one line
SameLine(text, i, j) == \A k \in i..j : text[k] # "\n"

\* token a directly followed by token b
Adjacent(text, as, bs) ==
    \E i \in 1..(Len(text) - 1) : text[i] \in as /\ text[i + 1] \in bs

\* SQL_INJECTION_PATTERNS[0]: union select | select union ... from
SqlUnionSelect(text) ==
    \E i \in 1..(Len(text) - 1) : \E j \in 1..Len(text) :
        /\ \/ text[i] = "union" /\ text[i + 1] = "select"
           \/ text[i] = "select" /\ text[i + 1] = "union"
        /\ j > i + 1 /\ text[j] = "from" /\ SameLine(text, i, j)

\* SQL_INJECTION_PATTERNS[1]: insert into | update ... set | delete from,
\* and a later where on the same line
SqlWriteWhere(text) ==
    \E i \in 1..Len(text) : \E j \in 1..Len(text) : \E w \in 1..Len(text) :
        /\ \/ text[i] = "insert" /\ j = i + 1 /\ text[j] = "into"
           \/ text[i] = "update" /\ j > i + 1 /\ text[j] = "set"
           \/ text[i] = "delete" /\ j = i + 1 /\ text[j] = "from"
        /\ w > j /\ text[w] = "where" /\ SameLine(text, i, w)

\* SQL_INJECTION_PATTERNS[2]: drop table | truncate table
SqlDropTable(text) == Adjacent(text, {"drop", "truncate"}, {"table"})

\* SQL_INJECTION_PATTERNS[3]
SqlProcedure(text) ==
    \E i \in 1..Len(text) : text[i] \in {"xp_cmdshell", "sp_oacreate", "sp_executesql"}

SQL_INJECTION_PATTERNS(text) ==
    SqlUnionSelect(text) \/ SqlWriteWhere(text) \/ SqlDropTable(text)
        \/ SqlProcedure(text)

\* XSS_PATTERNS: a script tag followed by document.cookie, window.location,
\* fetch( or XMLHttpRequest; onload= or onerror= followed by document.,
\* window. or location.; javascript: followed by one of these and `(`
XSS_PATTERNS(text) ==
    \/ Adjacent(text, {"<script>"},
                {"document.cookie", "window.location", "fetch(", "XMLHttpRequest"})
    \/ Adjacent(text, {"onload=", "onerror="},
                {"document.cookie", "window.location", "document.(", "window.("})
    \/ Adjacent(text, {"javascript:"}, {"document.(", "window.("})

\* dangerous_patterns of the code branch
DangerousPatterns(text) ==
    \/ Adjacent(text, {"<script>"}, {"eval("})
    \/ Adjacent(text, {"javascript:"}, {"eval("})

\* the tokens that contain one of code_markers
CodeMarkers ==
    {"def", "class", "function", "const", "import", "{", "}", "==", "=>"}

\* the lines of a text, as pairs <<first, last>> of positions (first > last
\* for an empty line)
LineStarts(text) ==
    {1} \cup {i + 1 : i \in {k \in 1..Len(text) : text[k] = "\n"}}

LineEnd(text, start) ==
    IF \E k \in start..Len(text) : text[k] = "\n"
    THEN (CHOOSE k \in start..Len(text) :
            text[k] = "\n" /\ \A m \in start..(k - 1) : text[m] # "\n") - 1
    ELSE Len(text)

\* _is_likely_code_content followed by the test `is_code and
\* code_confidence > 0.3`: at least three lines, and more than three in ten
\* of them carry a code marker
IsLikelyCode(text) ==
    LET starts == LineStarts(text)
        marked == {st \in starts :
                     \E k \in st..LineEnd(text, st) : text[k] \in CodeMarkers}
    IN  /\ Len(text) > 0
        /\ Cardinality(starts) >= 3
        /\ 10 * Cardinality(marked) > 3 * Cardinality(starts)

RECURSIVE StripTags(_, _)
\* bleach.clean(text, tags=[], strip=True): the tags are removed, from the
\* token that opens one to the token that closes it
StripTags(text, inTag) ==
    IF text = << >> THEN << >>
    ELSE LET t == Head(text)
         IN  IF inTag THEN StripTags(Tail(text), t # ">")
             ELSE IF t \in {"<script>", "</script>"} THEN StripTags(Tail(text), FALSE)
             ELSE IF t = "<img" THEN StripTags(Tail(text), TRUE)
             ELSE <<t>> \o StripTags(Tail(text), FALSE)

RECURSIVE Strip(_)
\* str.strip(): the newlines at both ends are removed
Strip(text) ==
    IF text = << >> THEN << >>
    ELSE IF Head(text) = "\n" THEN Strip(Tail(text))
    ELSE IF text[Len(text)] = "\n" THEN Strip(SubSeq(text, 1, Len(text) - 1))
    ELSE text

\* lines 115-174: the sanitization proper.  context is TRUE for
\* {'is_code_context': True} and FALSE for no context.
Sanitized(text, max_length, context) ==
    LET cut == Take(text, max_length)
        is_code_context == context \/ IsLikelyCode(cut)
    IN  IF is_code_context
        THEN IF DangerousPatterns(cut) THEN [raised |-> TRUE, value |-> << >>]
             ELSE [raised |-> FALSE, value |-> Strip(cut)]
        ELSE IF XSS_PATTERNS(cut) \/ SQL_INJECTION_PATTERNS(cut)
             THEN [raised |-> TRUE, value |-> << >>]
             ELSE [raised |-> FALSE, value |-> Strip(StripTags(cut, FALSE))]

\* lines 99-101: the cache key is the MD5 of the context and of the first
\* 1000 characters of the text (no two keys of the model collide)
CacheKey(text, context) == [context |-> context, sample |-> Take(text, PrefixLen)]

\* redis_client.get(cache_key): the entry of the key, if any
Cached(S, key) == {e \in S : e.key = key}

\* redis_client.setex(cache_key, 3600, sanitized)
SetCached(S, key, value) ==
    {e \in S : e.key # key} \cup {[key |-> key, value |-> value]}

\* sanitize_string(text, max_length, context) with the cache S; client says
\* whether redis_client is there, fault names the cache call that raises.
\* A cached value is returned when it is not empty.
sanitize_string(text, max_length, context, S, client, fault) ==
    IF text = << >> THEN [raised |-> FALSE, value |-> << >>, cache |-> S, hit |-> FALSE]
    ELSE LET key == CacheKey(text, context)
             hits == IF client /\ fault # "get"
                     THEN {e \in Cached(S, key) : e.value # << >>} ELSE {}
             r == Sanitized(text, max_length, context)
         IN  IF hits # {}
             THEN [raised |-> FALSE, value |-> (CHOOSE e \in hits : TRUE).value,
                   cache |-> S, hit |-> TRUE]
             ELSE IF r.raised
             THEN [raised |-> TRUE, value |-> << >>, cache |-> S, hit |-> FALSE]
             ELSE [raised |-> FALSE, value |-> r.value, hit |-> FALSE,
                   cache |-> IF client /\ fault # "set"
                             THEN SetCached(S, key, r.value) ELSE S]

----------------------------------------------------------------------------
(* SupabaseService.increment_usage called by several workers at once: the *)
(* read through get_user_usage and the update are two requests to the     *)
(* store, and requests of other workers may come between them.            *)

Workers == {1, 2}

\* no call in progress; completed counts the updates that were made
NoRace == [pc |-> [w \in Workers |-> "idle"],
           seen |-> [w \in Workers |-> NoUsage],
           overlap |-> FALSE, started |-> 0, completed |-> 0]

\* variant of WriteCounters that raises the counters of the row as stored
WriteCountersInPlace(row, seen) ==
    [row EXCEPT !.daily_message_count = row.daily_message_count + 1,
                !.total_message_count = row.total_message_count + 1]

\* lines 252-262: update_data holds the counters that were read, raised by
\* one, and is written to the row of the month
WriteCounters(row, seen) ==
    [row EXCEPT !.daily_message_count = seen.daily_message_count + 1,
                !.total_message_count = seen.total_message_count + 1]

----------------------------------------------------------------------------
(* web/githubOauth.py: the state tokens of the GitHub OAuth flow.  A token  *)
(* of secrets.token_urlsafe(32) is a number that is issued once.  oauth     *)
(* holds the dict oauth_states, the clock in minutes, and, as history, whom *)
(* and when each token was issued to, how often the callback accepted it,   *)
(* and whether the callback has used it or found it expired.                *)

StateMinutes == 10

Tokens == 1..MaxTokens

OauthUsers == {"auth0|a", "auth0|b"}

NoState == [present |-> FALSE, user_id |-> "none", expires_at |-> 0]

NoOauth ==
    [configured |-> TRUE, clock |-> 0, issued |-> 0,
     oauth_states |-> [k \in Tokens |-> NoState],
     owner |-> [k \in Tokens |-> "none"],
     issued_at |-> [k \in Tokens |-> 0],
     accepted |-> [k \in Tokens |-> 0],
     dropped |-> [k \in Tokens |-> FALSE]]

\* variant of StateExpired that never finds a token expired
StateExpiredNever(data, t) == FALSE

\* lines 58-59 and 121: data["expires_at"] < datetime.now()
StateExpired(data, t) == data.expires_at < t

\* lines 48-62: the token is stored with its user and its expiry, then the
\* expired entries are deleted
StoreState(S, state, user_id, t) ==
    LET stored == [S EXCEPT ![state] =
                       [present |-> TRUE, user_id |-> user_id,
                        expires_at |-> t + StateMinutes]]
    IN  [k \in Tokens |->
            IF stored[k].present /\ StateExpired(stored[k], t)
            THEN NoState ELSE stored[k]]

\* variant of UsedState that leaves the token in the dict
UsedStateKept(S, state) == S

\* lines 122 and 132: del oauth_states[state]
UsedState(S, state) == [S EXCEPT ![state] = NoState]

\* lines 82-132: the checks of the callback before the code is exchanged;
\* state 0 is a missing state parameter.  result is the github_error of
\* the redirect, or "accepted" when the exchange is entered for user_id
github_oauth_callback(S, state, has_code, error, t) ==
    LET answer(result, user_id, after) ==
            [result |-> result, user_id |-> user_id, oauth_states |-> after]
    IN  IF error THEN answer("error", "none", S)
        ELSE IF ~has_code \/ state = 0
        THEN answer("invalid_request", "none", S)
        ELSE IF ~S[state].present THEN answer("invalid_state", "none", S)
        ELSE IF StateExpired(S[state], t)
        THEN answer("expired_state", "none", UsedState(S, state))
        ELSE answer("accepted", S[state].user_id, UsedState(S, state))

----------------------------------------------------------------------------
(* Initial state *)

InitOthers ==
    cache = NoCache /\ sancache = {} /\ race = NoRace /\ oauth = NoOauth

\* rows that earlier revisions of the write paths left behind: a paid
\* profile whose end date is missing or malformed, and an active
\* subscription row whose current_end is missing or malformed
LegacyUser(end) == [exists |-> TRUE, subscription_tier |-> "pro",
                    is_paid |-> TRUE, subscription_end_date |-> end]
LegacySub(end) == [status |-> "active", tier |-> "pro", current_end |-> end]

InitStores ==
    { <<NoUser, << >> >>,
      <<LegacyUser(BadTs), <<LegacySub(NullTs)>> >>,
      <<LegacyUser(NullTs), <<LegacySub(BadTs)>> >> }

\* models/state_fallback.py: a key that is not set reads as 0
NoRedis == [daily_count |-> 0, total_count |-> 0]

NoMem == [exists |-> FALSE, daily_message_count |-> 0, prompt_count |-> 0,
          last_reset_date |-> 0]

\* no zeroing seen yet, by the store client (db) or by state.py (mem)
NoResets == [db |-> << >>, mem |-> << >>]

\* no purchase was completed by the request before this one
NoPurchase == [made |-> FALSE, tier |-> "free", at |-> 0, inserted |-> FALSE]

Idle == [op |-> "none", at |-> 0, outcome |-> "none",
         resolved |-> DefaultSnapshot(0), snap |-> DefaultSnapshot(0),
         issued |-> FALSE, reset |-> FALSE,
         user |-> NoUser, sub |-> NoSub, status |-> 0, tier |-> "free",
         upstream |-> FALSE, handler |-> "none", model |-> "none",
         denied |-> "none", required |-> "none", answer |-> "none",
         allowed |-> TRUE, call |-> "none", ret |-> "none", fault |-> "none",
         text |-> << >>, max_length |-> 0, context |-> FALSE,
         value |-> << >>, raised |-> FALSE, hit |-> FALSE,
         before |-> NoUsage, purchase |-> NoPurchase,
         event |-> "none", updated |-> FALSE, touched |-> FALSE,
         state |-> 0, user_id |-> "none", replay |-> FALSE]

Init ==
    /\ now = 0
    /\ tzRep \in TzReps
    /\ \E st \in InitStores : users = st[1] /\ subscriptions = st[2]
    /\ user_usage = NoUsage
    /\ mem = NoMem
    /\ redis = NoRedis
    /\ InitOthers
    /\ resets = NoResets
    /\ last = Idle

----------------------------------------------------------------------------
(* The clock *)

\* no request is being handled: the last response has been sent
Ready == last.op = "none"

\* one tick passes, within the first MaxDays days after the start of a month
Tick ==
    /\ Ready
    /\ now % Period < MaxDays * TicksPerDay
    /\ now' = now + 1
    /\ last' = Idle
    /\ UNCHANGED <<tzRep, users, subscriptions, user_usage, mem, redis,
                   resets, others>>

\* one day passes
DayTick ==
    /\ Ready
    /\ DateOf(now) % DaysPerMonth < MaxDays
    /\ now' = now + TicksPerDay
    /\ last' = Idle
    /\ UNCHANGED <<tzRep, users, subscriptions, user_usage, mem, redis,
                   resets, others>>

\* thirty days pass: a new period and a new calendar month begin
LongTick ==
    /\ Ready
    /\ now + Period <= MaxTime
    /\ now' = now + Period
    /\ user_usage' = IF MonthOf(now') # MonthOf(now) THEN NoUsage ELSE user_usage
    /\ last' = Idle
    /\ UNCHANGED <<tzRep, users, subscriptions, mem, redis, resets, others>>

----------------------------------------------------------------------------
(* Requests.  Every authenticated request passes verify_token, which calls *)
(* ensure_user_in_database.                                                *)

\* ensure_user_in_database / SupabaseService.create_user: a missing user is
\* inserted as a free user and the usage row of the month is initialised;
\* failures are swallowed
EnsureUser(U, UT, t, rep, fail) ==
    IF U.exists \/ fail = "create" THEN [users |-> U, usage |-> UT]
    ELSE [users |-> NewUser,
          usage |-> IF UT.exists THEN UT ELSE InitialUsage(t, rep)]

\* GET /api/usage (main.py get_usage): the resolver and a report of it
get_usage(fail, pick) ==
    \E e \in {EnsureUser(users, user_usage, now, tzRep, fail)} :
    \E r \in {get_user_usage(e.users, e.usage, subscriptions, now, tzRep,
                            fail, pick)} :
        /\ users' = r.users
        /\ user_usage' = r.usage
        /\ last' = [Idle EXCEPT !.op = "usage", !.at = now,
                                !.outcome = r.outcome,
                                !.resolved = r.snap, !.snap = r.snap,
                                !.issued = r.issued, !.reset = r.reset,
                                !.user = e.users,
                                !.sub = get_active_subscription(subscriptions, pick),
                                !.status = 200,
                                !.tier = r.snap.subscription_tier,
                                !.purchase = last.purchase,
                                !.event = last.event]
        /\ UNCHANGED <<now, tzRep, subscriptions, mem, redis, resets, others>>

GetUsage ==
    /\ Ready
    /\ \E fail \in FailPoints \cup {"create"} :
       \E pick \in PickChoices(subscriptions) : get_usage(fail, pick)

\* POST /api/chat (web/chat.py chat): resolver, expiry check, model gate,
\* image-generation check, quota gate, upstream call, usage increment
chat(model_id, upstream, fail, pick) ==
    \E e \in {EnsureUser(users, user_usage, now, tzRep, fail)} :
    \E r \in {get_user_usage(e.users, e.usage, subscriptions, now, tzRep,
                            fail, pick)} :
    \E expired \in {HandlerExpired(r.snap, now)} :
    \E usage \in {IF expired
                 THEN [r.snap EXCEPT !.is_paid = FALSE,
                                     !.subscription_tier = "free"]
                 ELSE r.snap} :
    \E U2 \in {IF expired
              THEN update_user_subscription(r.users, "free",
                        StoreTs(now, tzRep), fail = "expiry")
              ELSE r.users} :
    \E tier \in {NormalizeTier(usage.subscription_tier)} :
    \E denied \in {DeniedBy(model_id, tier, usage)} :
    \E called \in {Forwarded(denied)} :
    \E status \in {IF called THEN ForwardedStatus(upstream, fail)
                  ELSE DenialStatus(denied)} :
        /\ users' = U2
        /\ user_usage' = IF IncrementReached(called, upstream)
                         THEN increment_message_count(U2, r.usage, now, tzRep, fail)
                         ELSE r.usage
        /\ last' = [Idle EXCEPT !.op = "chat", !.at = now,
                                !.outcome = r.outcome,
                                !.resolved = r.snap, !.snap = usage,
                                !.issued = r.issued, !.reset = r.reset,
                                !.user = e.users,
                                !.sub = get_active_subscription(subscriptions, pick),
                                !.status = status, !.tier = tier,
                                !.upstream = called, !.handler = "web",
                                !.model = model_id, !.denied = denied,
                                !.required = IF denied = "model"
                                             THEN RequiredTier(model_id)
                                             ELSE "none",
                                !.answer = IF called THEN upstream ELSE "none",
                                !.before = user_usage]
        /\ UNCHANGED <<now, tzRep, subscriptions, mem, redis, resets, others>>

IncFailPoints == {"inc_user", "inc_select", "inc_init", "inc_reset", "inc_write"}

\* chat requests with inputs drawn from the given sets: the upstream
\* outcome matters only when the request is forwarded, a failure of the
\* increment only when the upstream call succeeded
ChatOver(models, outcomes, fails) ==
    /\ Ready
    /\ user_usage.total_message_count < MaxCount
    /\ \E model_id \in models : \E upstream \in outcomes :
       \E fail \in fails : \E pick \in PickChoices(subscriptions) :
            /\ fail \in IncFailPoints => upstream = "ok"
            /\ chat(model_id, upstream, fail, pick)
            /\ last'.upstream \/ (upstream = "ok" /\ fail \notin IncFailPoints)

\* chat requests for a free model that the upstream answers; the store
\* calls that may fail are the two demotion writes
Chat == ChatOver({"openai/gpt-oss-20b:free"}, {"ok"}, {"none", "update", "expiry"})

----------------------------------------------------------------------------
(* main.py: the chat handler registered on the application itself, for the *)
(* same path as the one of web/chat.py                                     *)

\* main.py 778-786: lower-casing, then 'free' for a tier outside valid_tiers
NormalizeTierMain(tier) ==
    IF tier \in {"free", "starter", "pro", "pro_plus"} THEN tier ELSE "free"

\* main.py 824-852: the quota gate; its third branch tests 'pro_monthly'
QuotaDeniedMain(tier, snap) ==
    CASE tier = "free" -> snap.daily_message_count >= FREE_TIER_DAILY_LIMIT
      [] tier = "starter" -> snap.prompt_count >= STARTER_MONTHLY_LIMIT
      [] tier = "pro_monthly" -> snap.prompt_count >= PRO_MONTHLY_LIMIT
      [] OTHER -> FALSE

\* main.py 798-811: the tier named in the upgrade message of a model denial
RequiredTierMain(model_id) ==
    IF model_id \in PRO_PLUS_MODELS THEN "pro_plus"
    ELSE IF model_id \in PRO_MODELS THEN "pro"
    ELSE IF model_id \in STARTER_MODELS THEN "starter"
    ELSE "free"

\* main.py 792-852: the gate that denies the request, if any: model access,
\* then quota (this handler has no image-generation check)
DeniedByMain(model_id, tier, snap) ==
    IF ~validate_model_access(model_id, tier) THEN "model"
    ELSE IF QuotaDeniedMain(tier, snap) THEN "quota"
    ELSE "none"

\* POST /api/chat (main.py chat): resolver, expiry check, model gate, quota
\* gate, upstream call, usage increment
chat_main(model_id, upstream, fail, pick) ==
    \E e \in {EnsureUser(users, user_usage, now, tzRep, fail)} :
    \E r \in {get_user_usage(e.users, e.usage, subscriptions, now, tzRep,
                            fail, pick)} :
    \E expired \in {HandlerExpired(r.snap, now)} :
    \E usage \in {IF expired
                 THEN [r.snap EXCEPT !.is_paid = FALSE,
                                     !.subscription_tier = "free"]
                 ELSE r.snap} :
    \E U2 \in {IF expired
              THEN update_user_subscription(r.users, "free",
                        StoreTs(now, tzRep), fail = "expiry")
              ELSE r.users} :
    \E tier \in {NormalizeTierMain(usage.subscription_tier)} :
    \E denied \in {DeniedByMain(model_id, tier, usage)} :
    \E called \in {Forwarded(denied)} :
    \E status \in {IF called THEN ForwardedStatus(upstream, fail)
                  ELSE DenialStatus(denied)} :
        /\ users' = U2
        /\ user_usage' = IF IncrementReached(called, upstream)
                         THEN increment_message_count(U2, r.usage, now, tzRep, fail)
                         ELSE r.usage
        /\ last' = [Idle EXCEPT !.op = "chat", !.at = now,
                                !.outcome = r.outcome,
                                !.resolved = r.snap, !.snap = usage,
                                !.issued = r.issued, !.reset = r.reset,
                                !.user = e.users,
                                !.sub = get_active_subscription(subscriptions, pick),
                                !.status = status, !.tier = tier,
                                !.upstream = called, !.handler = "main",
                                !.model = model_id, !.denied = denied,
                                !.required = IF denied = "model"
                                             THEN RequiredTierMain(model_id)
                                             ELSE "none",
                                !.answer = IF called THEN upstream ELSE "none",
                                !.before = user_usage]
        /\ UNCHANGED <<now, tzRep, subscriptions, mem, redis, resets, others>>

\* POST /api/payment/verify (main.py verify_payment): the profile is set to
\* the purchased tier with an end date 30 days ahead, then a subscriptions
\* row with status 'active' is inserted (best effort), then the payment
\* transaction is recorded
verify_payment(tier, fail) ==
    \E e \in {EnsureUser(users, user_usage, now, tzRep, fail)} :
    \E end_date \in {StoreTs(now + Period, tzRep)} :
    \E paid \in {[e.users EXCEPT !.subscription_tier = tier,
                                !.subscription_end_date = end_date,
                                !.is_paid = TRUE]} :
    \E U2 \in {update_user_subscription(paid, tier, end_date, FALSE)} :
    \E row \in {[status |-> "active", tier |-> tier, current_end |-> end_date]} :
    \E status \in {CASE fail = "invalid" -> 400
                    [] ~e.users.exists -> 404
                    [] fail \in {"update", "transaction"} -> 500
                    [] OTHER -> 200} :
    \E written \in {e.users.exists /\ fail \notin {"invalid", "update"}} :
        /\ users' = IF written THEN U2 ELSE e.users
        /\ subscriptions' = IF written /\ fail # "create_subscription"
                            THEN Append(subscriptions, row)
                            ELSE subscriptions
        /\ user_usage' = e.usage
        /\ last' = [Idle EXCEPT !.op = "pay", !.at = now, !.user = e.users,
                                !.status = status, !.tier = tier,
                                !.purchase =
                                    [made |-> status = 200, tier |-> tier,
                                     at |-> now,
                                     inserted |-> written
                                         /\ fail # "create_subscription"]]
        /\ UNCHANGED <<now, tzRep, mem, redis, resets, others>>

PayFailPoints ==
    {"none", "create", "invalid", "update", "create_subscription", "transaction"}

VerifyPaymentOver(tiers) ==
    /\ Ready
    /\ Len(subscriptions) < MaxSubs
    /\ \E tier \in tiers : \E fail \in PayFailPoints :
            verify_payment(tier, fail)

VerifyPayment == VerifyPaymentOver({"starter", "pro"})

\* the response of the request is sent; the next request can be handled
Respond ==
    /\ ~Ready
    /\ last' = Idle
    /\ UNCHANGED <<now, tzRep, users, subscriptions, user_usage, mem, redis,
                   resets, others>>

Next == DayTick \/ LongTick \/ GetUsage \/ Chat \/ VerifyPayment \/ Respond

Spec == Init /\ [][Next]_vars

\* GET /api/usage as the request that follows a successful payment, with
\* every store call succeeding
GetUsageAfterPayment ==
    /\ last.op = "pay" /\ last.status = 200
    /\ \E pick \in PickChoices(subscriptions) : get_usage("none", pick)

\* purchases, each followed by a read of the usage, over the months
NextPurchase ==
    DayTick \/ LongTick \/ VerifyPayment \/ GetUsageAfterPayment \/ Respond

SpecPurchase == Init /\ [][NextPurchase]_vars

----------------------------------------------------------------------------
(* web/webhook.py: the Razorpay webhook.  The handlers update every        *)
(* subscriptions row of the user named in the notes of the payload; the    *)
(* columns valid_until and last_charged that they write are read by        *)
(* nothing and are left out.                                               *)

WebhookEvents ==
    {"subscription.activated", "subscription.charged",
     "subscription.cancelled", "payment.captured"}

PlanIds == {"plan_starter_monthly", "plan_pro_monthly", "plan_unknown"}

\* lines 179-186
map_plan_id_to_tier(plan_id) ==
    CASE plan_id = "plan_starter_monthly" -> "starter"
      [] plan_id = "plan_pro_monthly" -> "pro"
      [] plan_id = "plan_enterprise_monthly" -> "enterprise"
      [] OTHER -> "free"

\* variant of CancelledRow that writes the tier and leaves the status
CancelledRowTierOnly(row) == [row EXCEPT !.tier = "free"]

\* lines 150-154: the columns written by handle_subscription_cancelled
CancelledRow(row) == [row EXCEPT !.tier = "free", !.status = "cancelled"]

\* lines 84-90 and 118-123: the columns written by
\* handle_subscription_activated and handle_subscription_charged
ActiveRow(row, plan_id) ==
    [row EXCEPT !.tier = map_plan_id_to_tier(plan_id), !.status = "active"]

\* the rows after the update of the handler of the event
UpdatedRows(S, event, plan_id) ==
    [i \in 1..Len(S) |->
        IF event = "subscription.cancelled" THEN CancelledRow(S[i])
        ELSE ActiveRow(S[i], plan_id)]

\* lines 76-78, 111-112, 145-146: the handler returns before its update
\* when the notes carry no user_id (activated: or the payload no plan_id)
HandlerSkips(event, has_user, has_plan) ==
    ~has_user \/ (event = "subscription.activated" /\ ~has_plan)

\* POST /webhooks/razorpay: source IP, signature, then the handler of the
\* event: the update of the subscriptions rows, which raises when it fails
\* or matches no row, then invalidate_user_cache, whose result is dropped
razorpay_webhook(ip_ok, sig_ok, event, has_user, has_plan, plan_id, fail, fault, at) ==
    \E handled \in {event # "payment.captured"} :
    \E reaches \in {ip_ok /\ sig_ok /\ handled
                        /\ ~HandlerSkips(event, has_user, has_plan)} :
    \E updated \in {reaches /\ ~fail /\ Len(subscriptions) > 0} :
    \E c \in {invalidate_user_tier_cache(cache, fault, at)} :
    \E status \in {CASE ~ip_ok -> 403
                    [] ~sig_ok -> 400
                    [] reaches /\ ~updated -> 400
                    [] OTHER -> 200} :
        /\ subscriptions' = IF updated
                            THEN UpdatedRows(subscriptions, event, plan_id)
                            ELSE subscriptions
        /\ cache' = IF updated THEN [cache EXCEPT !.kv = c.kv] ELSE cache
        /\ last' = [Idle EXCEPT !.op = "webhook", !.at = now,
                                !.status = status, !.event = event,
                                !.denied = CASE ~ip_ok -> "ip"
                                             [] ~sig_ok -> "signature"
                                             [] OTHER -> "none",
                                !.updated = updated,
                                !.touched = updated /\ cache.enabled,
                                !.ret = IF updated THEN c.ret ELSE "none",
                                !.user = users]
        /\ UNCHANGED <<now, tzRep, users, user_usage, mem, redis, resets,
                       sancache, race, oauth>>

RazorpayWebhook ==
    /\ Ready
    /\ \E ip_ok \in BOOLEAN : \E sig_ok \in BOOLEAN :
       \E event \in WebhookEvents : \E has_user \in BOOLEAN :
       \E has_plan \in BOOLEAN : \E plan_id \in PlanIds :
       \E fail \in BOOLEAN : \E fault \in {"none", "throw"} :
       \E at \in 1..Len(TierCacheKeys) :
            /\ (fault = "none" => at = 1)
            \* what the request does not look at takes one value
            /\ (~ip_ok => sig_ok)
            /\ (~(ip_ok /\ sig_ok)
                    => has_user /\ has_plan /\ plan_id = "plan_unknown"
                       /\ ~fail /\ fault = "none")
            /\ (event # "subscription.activated" => has_plan)
            /\ (event \in {"subscription.cancelled", "payment.captured"}
                    => plan_id = "plan_unknown")
            /\ (event = "payment.captured" \/ ~has_user \/ ~has_plan
                    => ~fail /\ fault = "none")
            /\ (fail => fault = "none")
            /\ razorpay_webhook(ip_ok, sig_ok, event, has_user, has_plan,
                                plan_id, fail, fault, at)

\* the cancellation was processed by the request before this one, or by
\* the one before a chain of usage reads
AfterCancellation ==
    /\ last.event = "subscription.cancelled"
    /\ \/ last.op = "webhook" /\ last.status = 200 /\ last.updated
       \/ last.op = "usage"

\* GET /api/usage as a request that follows a processed cancellation
GetUsageAfterCancellation ==
    /\ AfterCancellation
    /\ \E fail \in FailPoints :
       \E pick \in PickChoices(subscriptions) : get_usage(fail, pick)

\* a purchase of the starter or the pro plan that is recorded in both
\* tables
Purchase ==
    /\ Ready
    /\ Len(subscriptions) < MaxSubs
    /\ \E tier \in {"starter", "pro"} : verify_payment(tier, "none")

\* the tier keys of the user are all in the cache, or none is; the cache
\* object is enabled or not
InitWebhook ==
    /\ now = 0
    /\ tzRep \in TzReps
    /\ users = NewUser
    /\ subscriptions = << >>
    /\ user_usage = NoUsage
    /\ mem = NoMem
    /\ redis = NoRedis
    /\ \E e \in BOOLEAN : \E stale \in BOOLEAN :
            cache = [NoCache EXCEPT
                        !.enabled = e,
                        !.kv = [k \in CacheKeys |->
                                   IF stale /\ k \in TierKeySet
                                   THEN Val(<<"pro">>) ELSE Nil]]
    /\ sancache = {}
    /\ oauth = NoOauth
    /\ race = NoRace
    /\ resets = NoResets
    /\ last = Idle

NextWebhook ==
    Purchase \/ RazorpayWebhook \/ GetUsageAfterCancellation \/ Respond

SpecWebhook == InitWebhook /\ [][NextWebhook]_vars

----------------------------------------------------------------------------
(* The usage counters on their own: the store client's lookup and          *)
(* increment, and the in-memory variant of models/state.py.  resets keeps, *)
(* per variant, the days on which the daily counter was zeroed.            *)

UsageFailPoints == {"none", "select", "init", "reset", "write"}

\* SupabaseService.get_user_usage(user_id)
DbLookup ==
    /\ Ready
    /\ \E fail \in UsageFailPoints \ {"write"} :
       \E r \in {DbGetUserUsage(user_usage, now, tzRep, fail)} :
        /\ user_usage' = r.row
        /\ resets' = IF r.reset
                     THEN [resets EXCEPT !.db = Append(@, DateOf(now))]
                     ELSE resets
        /\ last' = [Idle EXCEPT !.op = "lookup", !.at = now, !.reset = r.reset,
                                !.outcome = IF r.raised THEN "error" ELSE "ok"]
        /\ UNCHANGED <<now, tzRep, users, subscriptions, mem, redis, others>>

\* SupabaseService.increment_usage(user_id)
DbIncrement ==
    /\ Ready
    /\ user_usage.total_message_count < MaxIncrements
    /\ \E fail \in UsageFailPoints :
       \E r \in {DbGetUserUsage(user_usage, now, tzRep, fail)} :
        /\ user_usage' = DbIncrementUsage(user_usage, now, tzRep, fail)
        /\ resets' = IF r.reset
                     THEN [resets EXCEPT !.db = Append(@, DateOf(now))]
                     ELSE resets
        /\ last' = [Idle EXCEPT !.op = "increment", !.at = now,
                                !.reset = r.reset,
                                !.outcome = IF r.raised \/ ~r.usage.exists
                                               \/ fail = "write"
                                            THEN "error" ELSE "ok"]
        /\ UNCHANGED <<now, tzRep, users, subscriptions, mem, redis, others>>

\* models/state.py: next_reset = (last_reset_date + 1 day) at midnight
NextReset(last_reset) == DateOf(last_reset + TicksPerDay) * TicksPerDay

\* models/state.py get_user_usage: the entry is created on first use and
\* its daily counter zeroed once now has reached next_reset
MemGetUserUsage(M, t) ==
    LET user == IF M.exists THEN M
                ELSE [exists |-> TRUE, daily_message_count |-> 0,
                      prompt_count |-> 0, last_reset_date |-> t]
    IN  IF t >= NextReset(user.last_reset_date)
        THEN [user EXCEPT !.daily_message_count = 0, !.last_reset_date = t]
        ELSE user

MemZeroes(M, t) == M.exists /\ t >= NextReset(M.last_reset_date)

\* models/state.py get_user_usage(user_id)
MemLookup ==
    /\ Ready
    /\ mem' = MemGetUserUsage(mem, now)
    /\ resets' = IF MemZeroes(mem, now)
                 THEN [resets EXCEPT !.mem = Append(@, DateOf(now))]
                 ELSE resets
    /\ last' = [Idle EXCEPT !.op = "mem_lookup", !.at = now,
                            !.reset = MemZeroes(mem, now), !.outcome = "ok"]
    /\ UNCHANGED <<now, tzRep, users, subscriptions, user_usage, redis, others>>

\* models/state.py increment_message_count(user_id)
MemIncrement ==
    /\ Ready
    /\ mem.prompt_count < MaxIncrements
    /\ \E user \in {MemGetUserUsage(mem, now)} :
        mem' = [user EXCEPT !.daily_message_count = @ + 1,
                            !.prompt_count = @ + 1]
    /\ resets' = IF MemZeroes(mem, now)
                 THEN [resets EXCEPT !.mem = Append(@, DateOf(now))]
                 ELSE resets
    /\ last' = [Idle EXCEPT !.op = "mem_increment", !.at = now,
                            !.reset = MemZeroes(mem, now), !.outcome = "ok"]
    /\ UNCHANGED <<now, tzRep, users, subscriptions, user_usage, redis, others>>

----------------------------------------------------------------------------
(* models/state_fallback.py: the counters kept in Redis under the keys      *)
(* user:<id>:daily_count and user:<id>:total_count                          *)

\* "client": redis_client is None; "execute": the pipeline raises before
\* the server ran it; "reply": the server ran it and the reply is lost
RedisFailPoints == {"none", "client", "execute", "reply"}

\* get_user_usage: the pipeline queues five commands (total_count is read
\* twice) and its result is unpacked into four names, so the try block
\* raises ValueError before the reset of lines 43-52; the handler of the
\* exception, like the branch taken without a client, imports names that
\* models.state_fallback does not define and raises ImportError.  No key
\* is written on any path.
RedisGetUserUsage(R, fail) == [raised |-> TRUE, store |-> R]

\* increment_message_count: INCR of both keys in one MULTI/EXEC pipeline;
\* without a client or on an exception the import of
\* increment_message_count_fallback raises ImportError
RedisIncrementMessageCount(R, fail) ==
    IF fail \in {"client", "execute"}
    THEN [raised |-> TRUE, store |-> R]
    ELSE [raised |-> fail = "reply",
          store |-> [R EXCEPT !.daily_count = @ + 1, !.total_count = @ + 1]]

\* models/state_fallback.py get_user_usage(user_id)
RedisLookup ==
    /\ Ready
    /\ \E fail \in RedisFailPoints \ {"reply"} :
       \E r \in {RedisGetUserUsage(redis, fail)} :
        /\ redis' = r.store
        /\ last' = [Idle EXCEPT !.op = "redis_lookup", !.at = now,
                                !.outcome = IF r.raised THEN "raise" ELSE "ok"]
    /\ UNCHANGED <<now, tzRep, users, subscriptions, user_usage, mem, resets, others>>

\* models/state_fallback.py increment_message_count(user_id)
RedisIncrement ==
    /\ Ready
    /\ redis.total_count < MaxIncrements
    /\ \E fail \in RedisFailPoints :
       \E r \in {RedisIncrementMessageCount(redis, fail)} :
        /\ redis' = r.store
        /\ last' = [Idle EXCEPT !.op = "redis_increment", !.at = now,
                                !.outcome = IF r.raised THEN "raise" ELSE "ok"]
    /\ UNCHANGED <<now, tzRep, users, subscriptions, user_usage, mem, resets, others>>

InitUsage ==
    /\ now = 0
    /\ tzRep \in TzReps
    /\ users = NewUser
    /\ subscriptions = << >>
    /\ user_usage = NoUsage
    /\ mem = NoMem
    /\ redis = NoRedis
    /\ InitOthers
    /\ resets = NoResets
    /\ last = Idle

NextUsage ==
    Tick \/ LongTick \/ DbLookup \/ DbIncrement \/ MemLookup \/ MemIncrement
        \/ Respond

SpecUsage == InitUsage /\ [][NextUsage]_vars

\* The three modules are alternatives: a running server keeps its counters
\* in one of them, and none reads the state of another.  A behaviour
\* therefore uses one store from its first increment on.
UsesDb == mem = NoMem /\ redis = NoRedis

UsesMem == user_usage = NoUsage /\ resets.db = << >> /\ redis = NoRedis

UsesRedis == user_usage = NoUsage /\ resets.db = << >> /\ mem = NoMem

CountDb == UsesDb /\ (DbLookup \/ DbIncrement)

CountMem == UsesMem /\ (MemLookup \/ MemIncrement)

CountRedis == UsesRedis /\ (RedisLookup \/ RedisIncrement)

NextCounters == Tick \/ LongTick \/ CountDb \/ CountMem \/ CountRedis \/ Respond

SpecCounters == InitUsage /\ [][NextCounters]_vars

----------------------------------------------------------------------------
(* The gates on their own: both chat handlers and check_message_limit, for *)
(* every tier that can be bought, with the month's counters at and next to *)
(* the limits of the tiers.                                                *)

CHECK_DAILY_LIMIT == 25

\* supabase_state.py 139-154: check_message_limit on the resolved snapshot
check_message_limit(snap) ==
    IF snap.subscription_tier \in {"pro", "basic"} THEN TRUE
    ELSE snap.daily_message_count < CHECK_DAILY_LIMIT

\* check_message_limit(user_id): the resolver, then the test
CheckMessageLimit ==
    /\ Ready
    /\ \E pick \in PickChoices(subscriptions) :
       \E r \in {get_user_usage(users, user_usage, subscriptions, now, tzRep,
                               "none", pick)} :
        /\ users' = r.users
        /\ user_usage' = r.usage
        /\ last' = [Idle EXCEPT !.op = "limit", !.at = now,
                                !.outcome = r.outcome,
                                !.resolved = r.snap, !.snap = r.snap,
                                !.issued = r.issued, !.reset = r.reset,
                                !.user = users,
                                !.sub = get_active_subscription(subscriptions, pick),
                                !.tier = r.snap.subscription_tier,
                                !.allowed = check_message_limit(r.snap)]
        /\ UNCHANGED <<now, tzRep, subscriptions, mem, redis, resets, others>>

\* the models asked for: one that first appears in each allow-list, the
\* image model of the pro list, and one that no list contains
GateModels ==
    {"openai/gpt-oss-20b:free", "meta-llama/llama-3.3-70b-instruct:free",
     "x-ai/grok-4-fast", "google/gemini-2.5-flash-image", "openai/gpt-4-turbo",
     "unlisted/model"}

\* the daily and the month-to-date count of the usage row at the start
StartCounts ==
    { <<0, 0>>, <<FREE_TIER_DAILY_LIMIT - 1, FREE_TIER_DAILY_LIMIT - 1>>,
      <<FREE_TIER_DAILY_LIMIT, FREE_TIER_DAILY_LIMIT>>,
      <<0, STARTER_MONTHLY_LIMIT - 1>>, <<0, STARTER_MONTHLY_LIMIT>>,
      <<0, PRO_MONTHLY_LIMIT - 1>>, <<0, PRO_MONTHLY_LIMIT>> }

\* fewer than MaxCount messages have been counted since the start
CountInRange ==
    \E c \in StartCounts :
        /\ c[2] <= user_usage.total_message_count
        /\ user_usage.total_message_count < c[2] + MaxCount

\* the store calls of a chat request that may fail here: those of the
\* usage increment
GateFailPoints ==
    {"none", "inc_user", "inc_select", "inc_init", "inc_reset", "inc_write"}

\* chat requests to the handler of web/chat.py
ChatWeb ==
    /\ Ready
    /\ CountInRange
    /\ \E model_id \in GateModels : \E upstream \in UpstreamOutcomes :
       \E fail \in GateFailPoints : \E pick \in PickChoices(subscriptions) :
            /\ fail # "none" => upstream = "ok"
            /\ chat(model_id, upstream, fail, pick)
            /\ last'.upstream \/ (upstream = "ok" /\ fail = "none")

\* chat requests to the handler of main.py
ChatMain ==
    /\ Ready
    /\ CountInRange
    /\ \E model_id \in GateModels : \E upstream \in UpstreamOutcomes :
       \E fail \in GateFailPoints : \E pick \in PickChoices(subscriptions) :
            /\ fail # "none" => upstream = "ok"
            /\ chat_main(model_id, upstream, fail, pick)
            /\ last'.upstream \/ (upstream = "ok" /\ fail = "none")

\* a payment for any of the paid tiers
VerifyPaymentAny == VerifyPaymentOver(PaidTiers)

InitChat ==
    /\ now = 0
    /\ tzRep \in TzReps
    /\ users = NewUser
    /\ subscriptions = << >>
    /\ \E c \in StartCounts :
            user_usage = [InitialUsage(0, tzRep) EXCEPT
                              !.daily_message_count = c[1],
                              !.total_message_count = c[2]]
    /\ mem = NoMem
    /\ redis = NoRedis
    /\ InitOthers
    /\ resets = NoResets
    /\ last = Idle

NextChat == VerifyPaymentAny \/ ChatWeb \/ ChatMain \/ CheckMessageLimit \/ Respond

SpecChat == InitChat /\ [][NextChat]_vars

\* the chat requests of a user who has not paid, with days passing between
\* them
NextChatDays == ChatWeb \/ ChatMain \/ DayTick \/ Respond

SpecChatDays == InitChat /\ [][NextChatDays]_vars

----------------------------------------------------------------------------
(* Properties of the entitlement resolver.  After a usage or chat request  *)
(* `last` holds what the resolver read (user, sub), when (at), what it     *)
(* returned (resolved), whether it called update_user (issued) and how it  *)
(* ended (outcome).                                                        *)

Resolved == last.op \in {"usage", "chat"}

\* the user row exists and no store call raised during the resolution
StoreAnswered == last.outcome \in {"ok", "unbound"}

PastTs(s, t) == s.kind = "ts" /\ s.wall < t
FutureTs(s, t) == s.kind = "ts" /\ s.wall > t

IsDefault(snap) ==
    /\ snap.subscription_tier = "free"
    /\ snap.is_paid = FALSE
    /\ snap.daily_message_count = 0
    /\ snap.prompt_count = 0
    /\ snap.subscription_end_date = NullTs

\* C1: the resolver never raises: every call ends with a snapshot, and when
\* the user row is absent or a call made during the resolution raised (the
\* user, usage or subscription lookup, or the demotion write), the snapshot
\* is the default one: free, not paid, both counters 0, no end date.
C1_NeverRaises ==
    Resolved =>
        /\ last.outcome \in {"ok", "absent", "error", "unbound"}
        /\ last.outcome # "ok" => IsDefault(last.resolved)

\* the demotion write raised and the resolver returned
C1_Witness == Resolved /\ last.outcome = "error" /\ last.issued

C3_SubscriptionTierWins ==
    (Resolved /\ last.outcome = "ok" /\ last.sub.status = "active"
              /\ FutureTs(last.sub.current_end, last.at)
              /\ last.sub.tier # last.user.subscription_tier)
        => last.resolved.subscription_tier = last.sub.tier

\* C4: in every snapshot the resolver returns, is_paid implies an end date
\* that is set and strictly later than the instant of the resolution.
C4_PaidImpliesFutureExpiry ==
    (Resolved /\ last.resolved.is_paid)
        => /\ last.resolved.subscription_end_date.kind = "ts"
           /\ Instant(MakeAware(last.resolved.subscription_end_date)) > last.at

\* a paid snapshot was returned
C4_Witness ==
    /\ Resolved /\ last.resolved.is_paid
    /\ last.sub.status = "active" /\ FutureTs(last.sub.current_end, last.at)

\* C5: with no active subscription row and a user row that is paid with a
\* future end date, the snapshot is paid, with the tier and end date of the
\* user row and the stored usage counters; it is not the default snapshot.
C5_ProfileFallback ==
    (Resolved /\ StoreAnswered /\ last.sub.status = "none"
              /\ last.user.is_paid
              /\ FutureTs(last.user.subscription_end_date, last.at))
        => /\ last.outcome = "ok"
           /\ last.resolved.is_paid
           /\ last.resolved.subscription_tier = last.user.subscription_tier
           /\ last.resolved.subscription_end_date =
                  MakeAware(fromisoformat(last.user.subscription_end_date))
           /\ last.op = "usage" =>
                  /\ last.resolved.daily_message_count =
                         user_usage.daily_message_count
                  /\ last.resolved.prompt_count = user_usage.total_message_count

\* C6: with no subscriptions row and a user row that is paid, tier pro, with
\* an end date in the past, the snapshot is free and not paid and update_user
\* was called to demote the user row.
C6_ExpiredProfileDemoted ==
    (Resolved /\ StoreAnswered /\ subscriptions = << >>
              /\ last.user.is_paid /\ last.user.subscription_tier = "pro"
              /\ PastTs(last.user.subscription_end_date, last.at))
        => /\ ~last.resolved.is_paid
           /\ last.resolved.subscription_tier = "free"
           /\ last.issued

\* C7: once a chat request of a user whose active subscription row has
\* expired has been handled, the stored user row is free, not paid and has
\* no end date.
C7_ChatLeavesDemotedUser ==
    (last.op = "chat" /\ last.outcome = "ok" /\ last.sub.status = "active"
                      /\ PastTs(last.sub.current_end, last.at))
        => /\ users.subscription_tier = "free"
           /\ users.is_paid = FALSE
           /\ users.subscription_end_date = NullTs

\* C8: with more than one active subscription row the resolver reads the
\* most recent one, and while that one has a future current_end no demotion
\* is written and the snapshot is paid.
C8_NewestActiveIsAuthoritative ==
    (Resolved /\ StoreAnswered /\ Cardinality(ActiveRows(subscriptions)) > 1)
        => /\ last.sub = subscriptions[NewestActive(subscriptions)]
           /\ FutureTs(subscriptions[NewestActive(subscriptions)].current_end,
                       last.at)
                  => (~last.issued /\ last.resolved.is_paid)

\* the stored timestamp s written in the representation rep
AsRep(s, rep) == IF s.kind = "ts" THEN Ts(s.wall, rep) ELSE s

\* the checks of the resolver on the rows it read, with their timestamps
\* written in the representation rep
ChecksAs(rep) ==
    LET user == [last.user EXCEPT !.subscription_end_date = AsRep(@, rep)]
        subscription == [last.sub EXCEPT !.current_end = AsRep(@, rep)]
    IN  CheckUserRow(user, CheckSubscription(user, subscription, last.at, "none"),
                     last.at)

\* C10: for the same instants the resolver returns the same tier, is_paid
\* and end date whether the stored timestamps are naive or carry the UTC
\* offset, and in neither case does a comparison fail or the resolver fall
\* back to the default snapshot.
C10_SameForNaiveAndAware ==
    (Resolved /\ StoreAnswered)
        => /\ last.outcome = "ok"
           /\ \A rep \in TzReps :
                /\ ~ChecksAs(rep).raised
                /\ ChecksAs(rep).is_paid = last.resolved.is_paid
                /\ ChecksAs(rep).tier = last.resolved.subscription_tier
                /\ ChecksAs(rep).end_date = last.resolved.subscription_end_date

----------------------------------------------------------------------------
(* The cache in use: calls of the operations of RedisCache and of          *)
(* GitHubCacheService, and GET /api/github/repos                           *)

RedisCacheOps ==
    {"cache_session", "get_session", "cache_messages", "get_messages",
     "append_message", "cache_user_sessions", "get_user_sessions",
     "invalidate_session", "invalidate_user_tier_cache",
     "invalidate_user_sessions", "invalidate_all_user_data", "clear_all",
     "get_stats"}

GitHubCacheOps ==
    {"get_connection_status", "set_connection_status",
     "invalidate_connection_status", "get_repos", "set_repos",
     "invalidate_repos"}

\* the number of underlying Redis calls an operation makes at most
CallsOf(op) ==
    CASE op \in {"append_message", "invalidate_session"} -> 2
      [] op = "invalidate_user_tier_cache" -> Len(TierCacheKeys)
      [] OTHER -> 1

RedisCacheCall(op, C, data, fault, at) ==
    CASE op = "cache_session" -> cache_session(C, data, fault)
      [] op = "get_session" -> get_session(C, fault)
      [] op = "cache_messages" -> cache_messages(C, data, fault)
      [] op = "get_messages" -> get_messages(C, fault)
      [] op = "append_message" -> append_message(C, "m", fault, at)
      [] op = "cache_user_sessions" -> cache_user_sessions(C, data, fault)
      [] op = "get_user_sessions" -> get_user_sessions(C, fault)
      [] op = "invalidate_session" -> invalidate_session(C, fault, at)
      [] op = "invalidate_user_tier_cache" ->
            invalidate_user_tier_cache(C, fault, at)
      [] op = "invalidate_user_sessions" -> invalidate_user_sessions(C, fault)
      [] op = "invalidate_all_user_data" -> invalidate_all_user_data(C, fault)
      [] op = "clear_all" -> clear_all(C, fault)
      [] op = "get_stats" -> get_stats(C, fault)

GitHubCacheCall(op, C, data, fault) ==
    CASE op = "get_connection_status" -> get_connection_status(C, fault)
      [] op = "set_connection_status" -> set_connection_status(C, data, fault)
      [] op = "invalidate_connection_status" ->
            invalidate_connection_status(C, fault)
      [] op = "get_repos" -> get_repos(C, fault)
      [] op = "set_repos" -> set_repos(C, data, fault)
      [] op = "invalidate_repos" -> invalidate_repos(C, fault)

\* the cached message list holds at most MaxMessages messages
MessagesInRange ==
    Len(cache.kv["messages"].data) < MaxMessages

\* a call of one operation of RedisCache
RedisCacheOp ==
    /\ Ready
    /\ \E op \in RedisCacheOps : \E fault \in CacheFaults :
       \E at \in 1..CallsOf(op) :
       \E r \in {RedisCacheCall(op, cache, <<"d">>, fault, at)} :
        /\ op = "append_message" => MessagesInRange
        /\ fault = "none" => at = 1
        /\ cache' = [cache EXCEPT !.kv = r.kv]
        /\ last' = [Idle EXCEPT !.op = "cache", !.at = now, !.call = op,
                                !.ret = r.ret,
                                !.fault = IF ~cache.enabled THEN "disabled"
                                          ELSE fault]
    /\ UNCHANGED <<now, tzRep, users, subscriptions, user_usage, mem, redis,
                   resets, sancache, race, oauth>>

\* a call of one operation of GitHubCacheService
GitHubCacheOp ==
    /\ Ready
    /\ \E op \in GitHubCacheOps : \E fault \in CacheFaults :
       \E r \in {GitHubCacheCall(op, cache, <<"d">>, fault)} :
        /\ cache' = [cache EXCEPT !.kv = r.kv]
        /\ last' = [Idle EXCEPT !.op = "cache", !.at = now, !.call = op,
                                !.ret = r.ret,
                                !.fault = IF ~cache.client THEN "disabled"
                                          ELSE fault]
    /\ UNCHANGED <<now, tzRep, users, subscriptions, user_usage, mem, redis,
                   resets, sancache, race, oauth>>

\* web/github.py get_github_repos for a user whose GitHub account is
\* connected and whose repositories GitHub returns: the cached page is
\* returned when there is one, else the page is fetched and cached
get_github_repos(C, faultGet, faultSet) ==
    LET g == get_repos(C, faultGet)
        c == set_repos(C, <<"d">>, faultSet)
    IN  IF g.ret = "blocked" THEN [status |-> 0, answer |-> "blocked", kv |-> C.kv]
        ELSE IF g.ret = "data" THEN [status |-> 200, answer |-> "cached", kv |-> C.kv]
        ELSE IF c.ret = "blocked"
        THEN [status |-> 0, answer |-> "blocked", kv |-> C.kv]
        ELSE [status |-> 200, answer |-> "fetched", kv |-> c.kv]

GetGithubRepos ==
    /\ Ready
    /\ \E faultGet \in CacheFaults : \E faultSet \in CacheFaults :
       \E r \in {get_github_repos(cache, faultGet, faultSet)} :
        /\ cache' = [cache EXCEPT !.kv = r.kv]
        /\ last' = [Idle EXCEPT !.op = "repos", !.at = now,
                                !.call = "get_github_repos",
                                !.status = r.status, !.answer = r.answer,
                                !.ret = r.answer,
                                !.fault = IF ~cache.client THEN "disabled"
                                          ELSE IF faultGet # "none" THEN faultGet
                                          ELSE faultSet]
    /\ UNCHANGED <<now, tzRep, users, subscriptions, user_usage, mem, redis,
                   resets, sancache, race, oauth>>

\* RedisCache.__init__ and redis_config.get_redis_client: each client is
\* there or not, as the Redis server answered the ping at start-up
InitCache ==
    /\ now = 0
    /\ tzRep = "utc"
    /\ users = NewUser
    /\ subscriptions = << >>
    /\ user_usage = NoUsage
    /\ mem = NoMem
    /\ redis = NoRedis
    /\ \E e \in BOOLEAN : \E c \in BOOLEAN :
            cache = [NoCache EXCEPT !.enabled = e, !.client = c]
    /\ sancache = {}
    /\ oauth = NoOauth
    /\ race = NoRace
    /\ resets = NoResets
    /\ last = Idle

NextCache == RedisCacheOp \/ GitHubCacheOp \/ GetGithubRepos \/ Respond

SpecCache == InitCache /\ [][NextCache]_vars

----------------------------------------------------------------------------
(* Calls of sanitize_string.  The texts are those of test_sanitization.py,  *)
(* token by token, and texts longer than the sample of the cache key.       *)

Normal == <<"word", "word", "word">>

Hyphens == <<"word", "--", "word", "--", "word">>

\* SELECT * FROM users; DROP TABLE users;
StackedDrop == <<"select", "from", "word", ";", "drop", "table", "word">>

\* UPDATE users SET admin=1; DELETE FROM logs;
UpdateDelete == <<"update", "word", "set", "word", ";", "delete", "from", "word">>

\* username' UNION SELECT password FROM users--
UnionSelect == <<"word", "union", "select", "word", "from", "word", "--">>

\* username' OR 1=1--
Tautology == <<"word", "or", "1=1", "--">>

\* <script>alert('XSS')</script>
ScriptTag == <<"<script>", "alert(", "</script>">>

\* <img src=x onerror=alert('XSS')>
EventHandler == <<"<img", "onerror=", "alert(", ">">>

\* In SQL, you can use SELECT, INSERT, UPDATE, DELETE statements.  How do
\* I DROP an old table?
SqlMention == <<"select", "insert", "update", "delete", "word", "drop", "word", "table">>

\* def query(): / # This is a comment / result = db.query('SELECT * FROM
\* users') / return result
CodeLines == <<"def", "\n", "word", "\n", "select", "from", "word", "\n", "word">>

\* should_pass: False
Payloads ==
    {StackedDrop, UpdateDelete, UnionSelect, Tautology, ScriptTag, EventHandler}

\* should_pass: True
Benign == {Normal, Hyphens, SqlMention, CodeLines}

Words(n) == [i \in 1..n |-> "word"]

\* a text as long as the sample, and the same text with more after it
LongBenign == Words(PrefixLen)

LongPayload == Words(PrefixLen) \o <<"drop", "table", "word">>

Texts == Payloads \cup Benign \cup {LongBenign, LongPayload, << >>}

\* max_length: 500000 in the test suite and in the chat handlers, here
\* longer than every text; and a limit shorter than the texts
MaxLengths == {PrefixLen + 5, 2}

SanitizeFaults == {"none", "get", "set"}

\* one call of InputValidator.sanitize_string
Sanitize ==
    /\ Ready
    /\ \E text \in Texts : \E max_length \in MaxLengths :
       \E context \in BOOLEAN : \E fault \in SanitizeFaults :
       \E r \in {sanitize_string(text, max_length, context, sancache,
                                 cache.client, fault)} :
        /\ Cardinality(r.cache) <= MaxCached
        /\ sancache' = r.cache
        /\ last' = [Idle EXCEPT !.op = "sanitize", !.at = now, !.text = text,
                                !.max_length = max_length,
                                !.context = context, !.fault = fault,
                                !.value = r.value, !.raised = r.raised,
                                !.hit = r.hit,
                                !.status = IF r.raised THEN 400 ELSE 0]
    /\ UNCHANGED <<now, tzRep, users, subscriptions, user_usage, mem, redis,
                   resets, cache, race, oauth>>

\* setex(cache_key, 3600, sanitized): an entry expires after an hour
SanitizedExpires ==
    /\ Ready
    /\ \E e \in sancache : sancache' = sancache \ {e}
    /\ UNCHANGED <<now, tzRep, users, subscriptions, user_usage, mem, redis,
                   resets, cache, race, last, oauth>>

InitSanitize ==
    /\ now = 0
    /\ tzRep = "utc"
    /\ users = NewUser
    /\ subscriptions = << >>
    /\ user_usage = NoUsage
    /\ mem = NoMem
    /\ redis = NoRedis
    /\ \E c \in BOOLEAN : cache = [NoCache EXCEPT !.client = c]
    /\ sancache = {}
    /\ oauth = NoOauth
    /\ race = NoRace
    /\ resets = NoResets
    /\ last = Idle

NextSanitize == Sanitize \/ SanitizedExpires \/ Respond

SpecSanitize == InitSanitize /\ [][NextSanitize]_vars

----------------------------------------------------------------------------
(* Two workers incrementing the usage of one user in one month *)

\* increment_usage line 251: usage = self.get_user_usage(user_id)
IncRead(w) ==
    /\ race.pc[w] = "idle"
    /\ race.started < MaxIncrements
    /\ \E fail \in UsageFailPoints \ {"write"} :
       \E r \in {DbGetUserUsage(user_usage, now, tzRep, fail)} :
        /\ user_usage' = r.row
        /\ resets' = IF r.reset
                     THEN [resets EXCEPT !.db = Append(@, DateOf(now))]
                     ELSE resets
        /\ race' = [race EXCEPT
                      !.pc[w] = IF r.raised \/ ~r.usage.exists
                                THEN "failed" ELSE "read",
                      !.seen[w] = r.usage,
                      !.started = @ + 1,
                      !.overlap = @ \/ (~r.raised /\ r.usage.exists /\
                                        \E v \in Workers \ {w} :
                                            race.pc[v] = "read")]
    /\ UNCHANGED <<now, tzRep, users, subscriptions, mem, redis, cache,
                   sancache, last, oauth>>

\* increment_usage line 260: the update of the row
IncWrite(w) ==
    /\ race.pc[w] = "read"
    /\ \E fail \in {"none", "write"} :
        /\ user_usage' = IF fail = "write" \/ ~user_usage.exists
                         THEN user_usage
                         ELSE WriteCounters(user_usage, race.seen[w])
        /\ race' = [race EXCEPT
                      !.pc[w] = IF fail = "write" \/ ~user_usage.exists
                                THEN "failed" ELSE "done",
                      !.completed = IF fail = "write" \/ ~user_usage.exists
                                    THEN @ ELSE @ + 1]
    /\ UNCHANGED <<now, tzRep, users, subscriptions, mem, redis, cache,
                   sancache, resets, last, oauth>>

\* both calls have returned
IncReturn ==
    /\ \A w \in Workers : race.pc[w] \in {"done", "failed"}
    /\ race' = [race EXCEPT !.pc = [w \in Workers |-> "idle"],
                            !.seen = [w \in Workers |-> NoUsage],
                            !.overlap = FALSE]
    /\ UNCHANGED <<now, tzRep, users, subscriptions, user_usage, mem, redis,
                   cache, sancache, resets, last, oauth>>

InitRace ==
    /\ now = 0
    /\ tzRep \in TzReps
    /\ users = NewUser
    /\ subscriptions = << >>
    /\ user_usage \in {NoUsage, InitialUsage(0, tzRep)}
    /\ mem = NoMem
    /\ redis = NoRedis
    /\ cache = NoCache
    /\ sancache = {}
    /\ oauth = NoOauth
    /\ race = NoRace
    /\ resets = NoResets
    /\ last = Idle

NextRace == (\E w \in Workers : IncRead(w) \/ IncWrite(w)) \/ IncReturn \/ Tick

SpecRace == InitRace /\ [][NextRace]_vars

----------------------------------------------------------------------------
(* The GitHub OAuth flow: authorize requests of two users, callbacks with  *)
(* any token, issued or not, and minutes passing.  The callback has no     *)
(* await between its look-up of the token and its del, so a request is one *)
(* step.                                                                   *)

\* minutes pass
OauthTick ==
    /\ oauth.clock + MinutesPerStep <= MaxMinutes
    /\ oauth' = [oauth EXCEPT !.clock = @ + MinutesPerStep]
    /\ UNCHANGED <<now, tzRep, users, subscriptions, user_usage, mem, redis,
                   resets, cache, sancache, race, last>>

\* GET /api/github/oauth/authorize: 500 when GITHUB_CLIENT_ID is not set,
\* otherwise a new token is stored for the user of the request
GithubOauthAuthorize ==
    /\ oauth.issued < MaxTokens
    /\ \E user_id \in OauthUsers : \E state \in {oauth.issued + 1} :
        /\ oauth' = IF ~oauth.configured THEN oauth
                    ELSE [oauth EXCEPT
                             !.issued = state,
                             !.oauth_states =
                                 StoreState(@, state, user_id, oauth.clock),
                             !.owner[state] = user_id,
                             !.issued_at[state] = oauth.clock]
        /\ last' = [Idle EXCEPT !.op = "authorize", !.at = oauth.clock,
                                !.status = IF oauth.configured THEN 200
                                           ELSE 500,
                                !.state = IF oauth.configured THEN state
                                          ELSE 0,
                                !.user_id = user_id]
    /\ UNCHANGED <<now, tzRep, users, subscriptions, user_usage, mem, redis,
                   resets, cache, sancache, race>>

\* GET /api/github/oauth/callback: anyone may call it, with any state
GithubOauthCallback ==
    \E state \in {0} \cup Tokens : \E has_code \in BOOLEAN :
    \E error \in BOOLEAN :
    \E r \in {github_oauth_callback(oauth.oauth_states, state, has_code,
                                    error, oauth.clock)} :
        /\ oauth' = [oauth EXCEPT
                        !.oauth_states = r.oauth_states,
                        !.accepted =
                            IF r.result = "accepted"
                            THEN [@ EXCEPT ![state] = @ + 1] ELSE @,
                        !.dropped =
                            IF r.result \in {"accepted", "expired_state"}
                            THEN [@ EXCEPT ![state] = TRUE] ELSE @]
        /\ last' = [Idle EXCEPT !.op = "callback", !.at = oauth.clock,
                                !.status = 302, !.ret = r.result,
                                !.state = state, !.user_id = r.user_id,
                                !.replay = /\ state \in Tokens
                                           /\ oauth.dropped[state]
                                           /\ has_code /\ ~error]
        /\ UNCHANGED <<now, tzRep, users, subscriptions, user_usage, mem,
                       redis, resets, cache, sancache, race>>

InitOauth ==
    /\ now = 0
    /\ tzRep = "utc"
    /\ users = NewUser
    /\ subscriptions = << >>
    /\ user_usage = NoUsage
    /\ mem = NoMem
    /\ redis = NoRedis
    /\ cache = NoCache
    /\ sancache = {}
    /\ race = NoRace
    /\ \E configured \in BOOLEAN :
            oauth = [NoOauth EXCEPT !.configured = configured]
    /\ resets = NoResets
    /\ last = Idle

NextOauth == OauthTick \/ GithubOauthAuthorize \/ GithubOauthCallback

SpecOauth == InitOauth /\ [][NextOauth]_vars

----------------------------------------------------------------------------
(* Properties of the usage counters *)

NoRepeat(days) ==
    \A i \in 1..Len(days) : \A j \in 1..Len(days) : days[i] = days[j] => i = j

\* what a lookup or increment must do to a counter row that exists: on the
\* day of last_reset_date nothing is zeroed; on a later day the daily counter
\* restarts from zero and last_reset_date moves to the current day
KeepsOrZeroes(daily, lastDay, daily2, lastDay2, inc, zeroings, zeroings2) ==
    IF lastDay = DateOf(now)
    THEN daily2 = daily + inc /\ lastDay2 = lastDay /\ zeroings2 = zeroings
    ELSE /\ daily2 = inc
         /\ lastDay2 = DateOf(now)
         /\ zeroings2 = Append(zeroings, DateOf(now))

\* C9: over any sequence of lookups and increments the daily counter is
\* zeroed at most once per calendar day, a lookup or increment on the day of
\* the last reset keeps the increments made since, and the first one after a
\* day boundary zeroes once and advances last_reset_date; this holds for the
\* store client and for the in-memory variant.
C9_DailyResetIdempotent ==
    [][ /\ NoRepeat(resets'.db)
        /\ NoRepeat(resets'.mem)
        /\ (last'.op \in {"lookup", "increment"} /\ last'.outcome = "ok"
                /\ user_usage.exists)
             => KeepsOrZeroes(user_usage.daily_message_count,
                              DateOf(user_usage.last_reset_date.wall),
                              user_usage'.daily_message_count,
                              DateOf(user_usage'.last_reset_date.wall),
                              IF last'.op = "increment" THEN 1 ELSE 0,
                              resets.db, resets'.db)
        /\ (last'.op \in {"mem_lookup", "mem_increment"} /\ mem.exists)
             => KeepsOrZeroes(mem.daily_message_count,
                              DateOf(mem.last_reset_date),
                              mem'.daily_message_count,
                              DateOf(mem'.last_reset_date),
                              IF last'.op = "mem_increment" THEN 1 ELSE 0,
                              resets.mem, resets'.mem)
      ]_vars

\* on a day whose first lookup zeroed the counter, a message was counted and
\* a later lookup left it in place
C9_Witness ==
    /\ last.op = "lookup" /\ last.outcome = "ok" /\ ~last.reset
    /\ resets.db # << >>
    /\ resets.db[Len(resets.db)] = DateOf(now)
    /\ user_usage.daily_message_count = 1
    /\ user_usage.total_message_count = 2

----------------------------------------------------------------------------
(* Properties of the gates.  After a chat request `last` holds the handler *)
(* that served it, the model asked for, the tier and the snapshot the      *)
(* gates were applied with, the gate that denied it (denied), the tier     *)
(* named in the upgrade message (required), whether the upstream API was   *)
(* called (upstream) and what it answered (answer), and the status of the  *)
(* response.                                                               *)

Chatted == last.op = "chat"

\* the request reached the quota gate
AtQuotaGate == Chatted /\ last.denied \notin {"model", "image"}

\* C11: for a user resolved to tier free the quota gate denies the chat
\* request exactly when the daily count is 50 or more, with status 402, and
\* lets it pass below 50.
C11_FreeDailyQuota ==
    (AtQuotaGate /\ last.tier = "free")
        => IF last.snap.daily_message_count >= 50
           THEN last.denied = "quota" /\ last.status = 402
           ELSE last.denied = "none"

\* a free user at the limit was denied by the quota gate
C11_Witness ==
    /\ AtQuotaGate /\ last.tier = "free"
    /\ last.snap.daily_message_count = 50
    /\ last.status = 402

\* C12: in every chat handler the quota gate denies a starter user exactly
\* when the month-to-date count is 500 or more and a pro user exactly when
\* it is 2000 or more.
C12_PaidMonthlyQuota ==
    /\ (AtQuotaGate /\ last.tier = "starter")
           => (last.denied = "quota" <=> last.snap.prompt_count >= 500)
    /\ (AtQuotaGate /\ last.tier = "pro")
           => (last.denied = "quota" <=> last.snap.prompt_count >= 2000)

\* C13: a user resolved to tier pro_plus is never denied on the message
\* count, by the chat handlers or by check_message_limit.
C13_ProPlusUnlimited ==
    /\ (Chatted /\ last.tier = "pro_plus") => last.denied # "quota"
    /\ (last.op = "limit" /\ last.resolved.subscription_tier = "pro_plus")
           => last.allowed

GateDenies ==
    \/ ~validate_model_access(last.model, last.tier)
    \/ /\ last.handler = "web"
       /\ \/ IsImageModel(last.model) /\ ~ImageGeneration(last.tier)
          \/ QuotaDenied(last.tier, last.snap)
    \/ last.handler = "main" /\ QuotaDeniedMain(last.tier, last.snap)

\* C15: a chat request that the model gate, the image-generation check or
\* the quota gate denies is never sent to the upstream API; it ends with
\* the status of the denial.
C15_NoUpstreamOnDenial ==
    (Chatted /\ GateDenies)
        => (~last.upstream /\ last.answer = "none" /\ last.status \in {402, 403})

\* a request was denied by the quota gate and not forwarded
C15_Witness == Chatted /\ last.denied = "quota" /\ ~last.upstream

TierRank(tier) ==
    CASE tier = "free" -> 0
      [] tier = "starter" -> 1
      [] tier = "pro" -> 2
      [] tier = "pro_plus" -> 3

AllListed == FREE_MODELS \cup STARTER_MODELS \cup PRO_MODELS \cup PRO_PLUS_MODELS

\* C16: model access is monotonic in free < starter < pro < pro_plus: a
\* model allowed at a tier is allowed at every higher tier.
C16_AccessMonotonic ==
    /\ \A m \in AllListed \cup GateModels : \A t1 \in Tiers : \A t2 \in Tiers :
           (TierRank(t1) <= TierRank(t2) /\ validate_model_access(m, t1))
               => validate_model_access(m, t2)
    /\ (Chatted /\ last.denied # "model")
           => \A t2 \in Tiers :
                  TierRank(last.tier) <= TierRank(t2)
                      => validate_model_access(last.model, t2)

\* a starter user was granted a model of the starter list
C16_Witness ==
    /\ Chatted /\ last.tier = "starter" /\ last.denied # "model"
    /\ last.model = "meta-llama/llama-3.3-70b-instruct:free"

\* the lowest tier whose allow-list contains the model, free when none does
MinTier(m) ==
    IF \E t \in Tiers : m \in TierModels(t)
    THEN CHOOSE t \in Tiers :
            /\ m \in TierModels(t)
            /\ \A u \in Tiers : m \in TierModels(u) => TierRank(t) <= TierRank(u)
    ELSE "free"

\* C17: when the model gate denies a chat request, the tier named in the
\* upgrade message is the lowest tier whose allow-list contains the model,
\* in every chat handler, and free for a model in no list.
C17_RequiredTierIsMinimum ==
    (Chatted /\ last.denied = "model") => last.required = MinTier(last.model)

UnknownTiers == {"basic", "pro_monthly", "enterprise"}

\* C18: a model in no allow-list is refused at every tier, an unrecognised
\* tier included, and a chat request for it ends with 403 without a call
\* to the upstream API.
C18_FailsClosed ==
    /\ \A m \in GateModels \ AllListed : \A t \in Tiers \cup UnknownTiers :
           ~validate_model_access(m, t)
    /\ (Chatted /\ last.model \notin AllListed)
           => (last.status = 403 /\ ~last.upstream)

\* a pro_plus user asked for an unlisted model and was refused
C18_Witness ==
    /\ Chatted /\ last.model = "unlisted/model" /\ last.tier = "pro_plus"
    /\ last.status = 403

\* C19: the usage increment never raises to the chat handler: a request
\* that the upstream API answered ends with 200 whether or not the
\* increment could be made.
C19_IncrementBestEffort ==
    (Chatted /\ last.answer = "ok") => last.status = 200

\* the upstream answered, the increment failed, the response was returned
C19_Witness ==
    /\ Chatted /\ last.answer = "ok" /\ last.status = 200
    /\ last.outcome = "ok"
    /\ user_usage.total_message_count = last.resolved.prompt_count

----------------------------------------------------------------------------
(* Properties of the usage increment *)

\* between two states of one month a store's counters stay, or the total
\* rises by one and the daily count with it; the daily count may also
\* restart from zero where the store zeroes it on a new day
Together(daily, total, daily2, total2, zeroes) ==
    \/ total2 = total /\ daily2 = daily
    \/ total2 = total + 1 /\ daily2 = daily + 1
    \/ zeroes /\ total2 = total /\ daily2 = 0
    \/ zeroes /\ total2 = total + 1 /\ daily2 = 1

DailyWithinTotal ==
    /\ user_usage.daily_message_count <= user_usage.total_message_count
    /\ mem.daily_message_count <= mem.prompt_count
    /\ redis.daily_count <= redis.total_count

----------------------------------------------------------------------------
(* Properties of the cache *)

\* the cache could not serve the call: it is disabled or absent, or an
\* underlying call raised or got no answer
CacheFailed == last.op \in {"cache", "repos"} /\ last.fault # "none"

\* C21: every operation of RedisCache and GitHubCacheService returns None
\* or False, without raising or blocking, when the cache is disabled or
\* absent or the underlying call fails, and get_github_repos then answers
\* from GitHub.
C21_CacheIsOptional ==
    /\ (last.op = "cache" /\ CacheFailed) => last.ret \in {"None", "False"}
    /\ (last.op = "repos" /\ CacheFailed)
           => (last.status = 200 /\ last.answer = "fetched")

----------------------------------------------------------------------------
(* Properties of the upstream call *)

\* C22: an upstream call that times out ends the chat request with 504,
\* not the 500 of other unexpected errors, and a non-200 upstream response
\* ends it with the upstream status (429 here); neither request returns a
\* ChatResponse.
C22_UpstreamFailureStatus ==
    /\ (Chatted /\ last.answer = "timeout") => last.status = 504
    /\ (Chatted /\ last.answer = "status") => last.status = 429
    /\ (Chatted /\ last.answer = "empty") => last.status = 500

\* the upstream call of a request to main.py's handler timed out
C22_Witness ==
    /\ Chatted /\ last.handler = "main" /\ last.upstream
    /\ last.answer = "timeout" /\ last.status = 504

----------------------------------------------------------------------------
(* Properties of sanitize_string *)

\* a call with the arguments of the test suite that was not answered from
\* the cache
TestCall ==
    /\ last.op = "sanitize" /\ ~last.hit
    /\ last.max_length = PrefixLen + 5 /\ ~last.context

\* C23: sanitize_string raises for every text of the test suite that
\* carries an SQL-injection or XSS payload (stacked DROP TABLE, UPDATE ...;
\* DELETE FROM, UNION SELECT, OR 1=1, a script tag, an onerror= handler)
\* and returns for benign prose, prose that mentions SQL keywords and
\* multi-line code.
C23_PayloadsRejected ==
    /\ (TestCall /\ last.text \in Payloads) => last.raised
    /\ (TestCall /\ last.text \in Benign) => ~last.raised

\* C28: the sanitization cache is transparent: whatever the cache holds,
\* sanitize_string raises exactly when the sanitization of the text, for
\* the given max_length and context, raises, and otherwise returns its
\* sanitized form.
C28_CacheTransparent ==
    (last.op = "sanitize" /\ last.text # << >>)
        => LET r == Sanitized(last.text, last.max_length, last.context)
           IN  /\ last.raised = r.raised
               /\ ~r.raised => last.value = r.value

----------------------------------------------------------------------------
(* Properties of concurrent increments *)

\* both workers made their update after both had read the row
BothWroteAfterBothRead ==
    race.overlap /\ \A w \in Workers : race.pc[w] = "done"

\* C24: increment_usage is a read-modify-write that is not atomic: when
\* two increments read the usage row before either writes, the
\* month-to-date count rises by one for the two; and in no interleaving do
\* the completed increments raise it by more than their number.
C24_LostUpdateUndercounts ==
    /\ BothWroteAfterBothRead
           => \A w \in Workers :
                  user_usage.total_message_count
                      = race.seen[w].total_message_count + 1
    /\ user_usage.total_message_count <= race.completed

\* two increments completed and the count is one
C24_Witness ==
    /\ BothWroteAfterBothRead
    /\ race.completed = 2
    /\ user_usage.total_message_count = 1

----------------------------------------------------------------------------
(* Properties of the increment made by a chat request *)

\* the request ended in a gate denial, an upstream timeout, a non-200
\* upstream response or an empty choices list
NotAnswered == Chatted /\ last.status # 200

----------------------------------------------------------------------------
(* Properties of a purchase as the next usage read sees it *)

\* the usage read that follows a successful payment
ReadAfterPurchase == last.op = "usage" /\ last.purchase.made

\* C26: the get_user_usage that follows a successful verify_payment returns
\* is_paid = true, the purchased tier and an expiry 30 days after the
\* purchase, whether or not the subscriptions row was inserted.
C26_PurchaseVisible ==
    ReadAfterPurchase
        => /\ last.snap.is_paid
           /\ last.snap.subscription_tier = last.purchase.tier
           /\ last.snap.subscription_end_date.kind = "ts"
           /\ last.snap.subscription_end_date.wall = last.purchase.at + Period

----------------------------------------------------------------------------
(* Properties of the Razorpay webhook *)

\* the webhook answered success to one of the three subscription events
WebhookSucceeded ==
    /\ last.op = "webhook" /\ last.status = 200
    /\ last.event \in {"subscription.activated", "subscription.charged",
                       "subscription.cancelled"}

\* none of the tier keys of the user is in the cache
NoTierKeyCached == \A k \in TierKeySet : ~cache.kv[k].set

\* a request with an invalid source IP or signature has changed neither the
\* subscriptions rows nor the cache
RejectedChangesNothing ==
    (last'.op = "webhook" /\ last'.denied # "none")
        => (subscriptions' = subscriptions /\ cache' = cache)

\* C27: when the webhook answers success to subscription.activated,
\* subscription.charged or subscription.cancelled, the subscriptions rows
\* were updated before the cache was touched and none of the user's tier
\* cache keys is in the cache afterwards; a request with an invalid source
\* IP or signature changes neither the store nor the cache.
C27_WebhookInvalidates ==
    /\ [](WebhookSucceeded
            => (last.updated /\ (last.touched => last.updated)
                /\ NoTierKeyCached))
    /\ [][RejectedChangesNothing]_vars

----------------------------------------------------------------------------
(* Properties of a cancelled subscription *)

\* a usage read that follows a processed cancellation, for a user whose
\* profile still carries the purchase: paid, with an end date ahead
ReadAfterCancellation ==
    /\ last.op = "usage" /\ last.event = "subscription.cancelled"
    /\ last.user.exists /\ last.user.is_paid
    /\ last.user.subscription_end_date.kind = "ts"
    /\ last.user.subscription_end_date.wall > last.at

----------------------------------------------------------------------------
(* Properties of the OAuth state tokens *)

\* the callback accepted the token of the request
StateAccepted == last.op = "callback" /\ last.ret = "accepted"

\* C30: a state token issued by github_oauth_authorize is accepted by
\* github_oauth_callback at most once, only while it is unexpired (10
\* minutes), and only on behalf of the user it was issued to; a token that
\* was used or found expired is no longer in oauth_states, and a callback
\* that replays it is rejected as invalid_state.
C30_StateTokenSingleUse ==
    /\ \A k \in Tokens : oauth.accepted[k] <= 1
    /\ StateAccepted
         => /\ last.state \in 1..oauth.issued
            /\ last.at <= oauth.issued_at[last.state] + StateMinutes
            /\ last.user_id = oauth.owner[last.state]
    /\ \A k \in Tokens : oauth.dropped[k] => ~oauth.oauth_states[k].present
    /\ (last.op = "callback" /\ last.replay) => last.ret = "invalid_state"

\* a token was accepted at its tenth minute for the user it was issued to,
\* and a replay of it was rejected
C30_Witness ==
    /\ last.op = "callback" /\ last.replay /\ last.ret = "invalid_state"
    /\ oauth.accepted[last.state] = 1
    /\ oauth.owner[last.state] = "auth0|b"
    /\ last.at = oauth.issued_at[last.state] + StateMinutes

====
